---- MODULE Spec2Model ----
(***************************************************************************)
(* A state-machine model of the AKAZE feature pipeline of                  *)
(* modules/features2d/src/kaze/AKAZEFeatures.cpp.                          *)
(*                                                                         *)
(* The module holds one group of variables per part of the pipeline and    *)
(* one specification per part:                                             *)
(*   SpecDiffusion   the FED loop of Create_Nonlinear_Scale_Space and the  *)
(*                   row-range workers of non_linear_diffusion_step        *)
(*   SpecExtrema     Find_Scale_Space_Extrema: the scan of the response    *)
(*                   maps, the accumulator kpts_aux and the final filter   *)
(*   SpecSupport     one keypoint from the bounds check of the detector    *)
(*                   through refinement to the samples of its descriptor   *)
(*   SpecPipeline    one run from the constructor to Compute_Descriptors,  *)
(*                   with the order of its steps and its fatal errors      *)
(*   SpecRefine      the loop of Do_Subpixel_Refinement over a candidate   *)
(*                   list                                                  *)
(*   SpecRefineFair  the same loop in a thread that keeps running          *)
(*   SpecDescriptor  the bits the binary extractors write into one row of  *)
(*                   the descriptor matrix, for two runs on the same input *)
(*   SpecCompute     Compute_Descriptors: the descriptor matrix and the    *)
(*                   extractions parallel_for_ runs over the keypoints     *)
(*   SpecAllocate    Allocate_Memory_Evolution: the levels of the pyramid  *)
(*                   and the process times between them                    *)
(*   SpecMsurf       the two MSURF extractors: the sums of the subregions  *)
(*                   and the normalisation of the 64 values                *)
(*   SpecKcontrast   compute_kcontrast on the gradients of one image       *)
(*   SpecDetect      the detector filter of Find_Scale_Space_Extrema on    *)
(*                   the response map of one level                         *)
(*   SpecScaleSpace  the level loop of Create_Nonlinear_Scale_Space over   *)
(*                   the step lists of Allocate_Memory_Evolution           *)
(*   SpecSubsample   generateDescriptorSubsample, run by two constructions *)
(*                   beside another user of the generator of the C library *)
(*   SpecSubsampleAlone                                                    *)
(*                   the same without the other user, for every size       *)
(*   SpecOrientation Compute_Main_Orientation: the sort of the samples by  *)
(*                   angle and the sliding window over the slices          *)
(*   SpecGrid        one grid pass of the two full binary extractors: the  *)
(*                   loops over the cells of the grid                      *)
(* A specification moves the variables of its own part and leaves the      *)
(* other groups at their idle values.                                      *)
(*                                                                         *)
(* Pixel values are integers: the stencil is evaluated exactly, float      *)
(* rounding is not modelled.                                               *)
(***************************************************************************)
EXTENDS Integers, Sequences, FiniteSets, TLC

Min(a, b) == IF a < b THEN a ELSE b
Max(a, b) == IF a > b THEN a ELSE b

(***************************************************************************)
(* Part 1.  The diffusion step.                                            *)
(***************************************************************************)
VARIABLES
  rows,       \* Lt.rows of the level being evolved
  cols,       \* Lt.cols of the level being evolved
  Lt,         \* e.Lt, the evolving image: [0..rows-1] -> [0..cols-1] -> Int
  Lflow,      \* the conductivity image Lf of the level
  Lstep,      \* the output buffer of the diffusion step
  tsteps,     \* tsteps_[i - 1], the FED step list of the level
  tj,         \* the index j of the FED loop (0-based)
  nldPhase,   \* "call" | "running" | "joined" | "finished"
  ranges,     \* the row ranges parallel_for_ handed out for this step
  lanePos,    \* per range: how many rows of its lane are done
  LtAtCall,   \* ghost: Lt when non_linear_diffusion_step was entered
  LstepAtCall,\* ghost: Lstep when non_linear_diffusion_step was entered
  accesses    \* ghost: the buffer rows read and written by the workers of this step

nldVars == <<rows, cols, Lt, Lflow, Lstep, tsteps, tj, nldPhase, ranges, lanePos,
             LtAtCall, LstepAtCall, accesses>>

(***************************************************************************)
(* Part 2.  Find_Scale_Space_Extrema.                                      *)
(***************************************************************************)
VARIABLES
  descriptor, \* options_.descriptor: "KAZE_UPRIGHT" | "KAZE" | "MLDB_UPRIGHT" | "MLDB"
  kpts_aux,   \* the accumulator of accepted candidates
  kpts,       \* the keypoint list returned
  scanAt,     \* <<i, ix, jx>> of the last pixel that passed the detector filter
  extPhase,   \* "scan" | "done"
  seen,       \* ghost: every pixel that passed the detector filter, in scan order
  auxBefore,  \* ghost: kpts_aux before the last pixel was handled
  lastOp      \* ghost: what the last pixel did: "none" | "push" | "replace" | "drop" | "out"

extVars == <<descriptor, kpts_aux, kpts, scanAt, extPhase, seen, auxBefore, lastOp>>

(***************************************************************************)
(* Part 3.  The support window of a keypoint.                              *)
(***************************************************************************)
VARIABLES
  supOptions, \* options_.descriptor, descriptor_size and descriptor_pattern_size
  supPeak,    \* the pixel that passed the detector filter: level, jx, ix
  supKpt,     \* the keypoint: pt in thousandths of a pixel, scale, level
  supPhase,   \* "detect" | "accepted" | "rejected" | "refined" | "sampling" | "described"
  supGrid,    \* the grid z the extractor is at
  readBox,    \* ghost: the least and greatest row and column read so far
  rawBox      \* ghost: the least and greatest y1, y2, x1, x2 as first computed

supVars == <<supOptions, supPeak, supKpt, supPhase, supGrid, readBox, rawBox>>

(***************************************************************************)
(* Part 4.  One run of the pipeline.                                       *)
(***************************************************************************)
VARIABLES
  pipeOptions, \* options_: descriptor, descriptor_size, descriptor_channels,
               \* diffusivity, omax, nsublevels
  pipePc,      \* where the run is
  pipeLog,     \* ghost: the steps done so far, in order
  pipeError,   \* the fatal error raised, "none" if none
  pipeLevel,   \* the index i of the level loop of Create_Nonlinear_Scale_Space
  pipeKpts,    \* kpts.size() after Feature_Detection
  pipeDone     \* how many keypoints have their descriptor

pipeVars == <<pipeOptions, pipePc, pipeLog, pipeError, pipeLevel, pipeKpts, pipeDone>>

(***************************************************************************)
(* Part 5.  Do_Subpixel_Refinement.                                        *)
(***************************************************************************)
VARIABLES
  refKpts,   \* kpts, the list the loop refines in place
  refI,      \* the loop index i
  refDst,    \* dst, declared before the loop: the offset as numerators over a denominator
  refPhase,  \* "loop" | "done"
  refInput,  \* ghost: the list at entry
  refTrace   \* ghost: the candidates examined, in order, with the verdict

refVars == <<refKpts, refI, refDst, refPhase, refInput, refTrace>>

(***************************************************************************)
(* Part 6.  One row of the binary descriptor matrix.                       *)
(***************************************************************************)
VARIABLES
  dscOptions, \* options_.descriptor_size and options_.descriptor_channels
  dscKey,     \* the keypoint and the pyramid: what decides every comparison
  dscRow,     \* the row of the keypoint in two runs: run -> bytes
  dscPos,     \* dpos, the next bit to write
  dscLvl,     \* lvl, the grid of Get_MLDB_Full_Descriptor
  dscPhase    \* "start" | "created" | "done"

dscVars == <<dscOptions, dscKey, dscRow, dscPos, dscLvl, dscPhase>>

(***************************************************************************)
(* Part 7: Compute_Descriptors over a list of keypoints.                   *)
(***************************************************************************)
VARIABLES
  cmpOptions,   \* descriptor, descriptor_size, descriptor_channels
  cmpKpts,      \* the keypoints handed to Compute_Descriptors: the key of each
  cmpRows,      \* desc.rows
  cmpCols,      \* desc.cols
  cmpType,      \* desc.type(): "CV_32FC1", "CV_8UC1", "none" before create
  cmpData,      \* the cells of desc in storage order, cell r * cols + c at index + 1
  cmpAtCreate,  \* ghost: cmpData when descriptors.create returned
  cmpRanges,    \* the ranges parallel_for_ hands to the invoker
  cmpPos,       \* per range: the next keypoint index its loop takes
  cmpWrites,    \* ghost: pairs <<i, r>>, the extraction of keypoint i stored into row r
                \* (r = cmpRows stands for the storage behind the last row)
  cmpPhase      \* "start", "running", "done"

cmpVars == <<cmpOptions, cmpKpts, cmpRows, cmpCols, cmpType, cmpData, cmpAtCreate,
             cmpRanges, cmpPos, cmpWrites, cmpPhase>>

(***************************************************************************)
(* Part 8: Allocate_Memory_Evolution.                                      *)
(***************************************************************************)
VARIABLES
  alcOptions,    \* options_: omax, nsublevels, img_width, img_height, soffset (thousandths)
  alcOmaxAtCall, \* ghost: options_.omax when the constructor was entered
  alcI,          \* the loop index i of the loop running
  alcPower,      \* power
  alcEvolution,  \* evolution_
  alcTtime,      \* the process time ttime each entry of tsteps_ / nsteps_ was built for
  alcCycles,     \* ncycles_
  alcPhase       \* "octaves", "times", "done"

alcVars == <<alcOptions, alcOmaxAtCall, alcI, alcPower, alcEvolution, alcTtime, alcCycles,
             alcPhase>>

(***************************************************************************)
(* Part 9: the MSURF extractors.                                           *)
(***************************************************************************)
VARIABLES
  msfKpt,     \* the keypoint and the level it reads: variant, quarter turns of its
              \* angle, scale, the gradient field of the level
  msfCell,    \* the subregions done, 0 .. 16: the turns of the two while loops
  msfDesc,    \* desc[0 .. dcount - 1], in tenths of hundredths
  msfLen,     \* len, in the square of the unit of desc
  msfOut,     \* desc after the division by sqrt(len), << >> before
  msfPhase    \* "cells", "done"

msfVars == <<msfKpt, msfCell, msfDesc, msfLen, msfOut, msfPhase>>

(***************************************************************************)
(* Part 10: compute_kcontrast.                                             *)
(***************************************************************************)
VARIABLES
  kcIn,       \* the arguments: Lx and Ly (rows, cols, field), perc in thousandths, nbins
  kcOut,      \* the value returned, in thousandths, or the error raised
  kcPhase     \* "call", "returned"

kcVars == <<kcIn, kcOut, kcPhase>>

(***************************************************************************)
(* Part 11: the detector filter on one response map.                       *)
(***************************************************************************)
VARIABLES
  detIn,      \* the response map of one level (its size and the values placed on it) and
              \* the options dthreshold and min_dthreshold, responses in tenths
  detAt,      \* <<ix, jx>>: the pixel the two loops visit next
  detCands,   \* the pixels <<ix, jx>> for which is_extremum was set by the filter
  detPhase    \* "scan", "done"

detVars == <<detIn, detAt, detCands, detPhase>>

(***************************************************************************)
(* Part 12: the level loop of Create_Nonlinear_Scale_Space.                *)
(***************************************************************************)
VARIABLES
  cssOptions,   \* options_.omax and options_.nsublevels
  cssTsteps,    \* tsteps_: one list of time steps per entry
  cssLt,        \* ghost: for each level, the operations that made its Lt, in order
  cssI,         \* the index i of the loop at hand
  cssJ,         \* the index j of the FED loop
  cssKcontrast, \* how many times kcontrast was multiplied by 0.75f
  cssLflow,     \* the level whose smoothed Lt the conductivity Lflow was computed from
  cssPhase      \* "allocate", "allocated", "contrast", "levels", "steps", "done"

cssVars == <<cssOptions, cssTsteps, cssLt, cssI, cssJ, cssKcontrast, cssLflow, cssPhase>>

(***************************************************************************)
(* Part 13: generateDescriptorSubsample.                                   *)
(***************************************************************************)
VARIABLES
  subIn,       \* the arguments nbits, pattern_size and nchannels
  subRand,     \* the generator behind srand and rand: the seed set last and the calls
               \* of rand made since
  subOther,    \* another thread of the process: "idle" before its call, "called" after
  subFullM,    \* fullM: one row <<grid, x, y, x, y>> per comparison of the full descriptor
  subFullcopy, \* fullcopy, the table the picks are taken from
  subSamples,  \* the rows 0 .. count - 1 of samples
  subComps,    \* comps: one pair per row
  subI,        \* the index i of the loop over the picks
  subPicked,   \* ghost: the rows of fullcopy picked so far, in order
  subOutside,  \* ghost: the <<row, column>> of the stores made outside comps
  subRun,      \* which of two constructions with the same arguments is running
  subFirst,    \* the tables sampleList and comparisons the first construction returned
  subOut,      \* the tables sampleList and comparisons the running construction returned
  subPhase     \* "entry", "picks", "done", "failed", "crashed"

subVars == <<subIn, subRand, subOther, subFullM, subFullcopy, subSamples, subComps,
            subI, subPicked, subOutside, subRun, subFirst, subOut, subPhase>>

(***************************************************************************)
(* Part 14: Compute_Main_Orientation.                                      *)
(***************************************************************************)
VARIABLES
  oriRes,       \* resX, resY and the slice of Ang of each sample: [x, y, key]
  oriSlice,     \* slice[0 .. 42] as quantized_counting_sort leaves it
  oriSortedIdx, \* sorted_idx
  oriSn,        \* the position sn of the window
  oriMax,       \* maxNorm, maxX, maxY
  oriSummed,    \* ghost: the positions whose window was summed
  oriPhase      \* "sampled", "sorted", "slide", "wrap", "store", "done"

oriVars == <<oriRes, oriSlice, oriSortedIdx, oriSn, oriMax, oriSummed, oriPhase>>

(***************************************************************************)
(* Part 15: one grid pass of the full binary extractors.                   *)
(***************************************************************************)
VARIABLES
  grdIn,      \* the extractor, options_.descriptor_pattern_size and the grid z
  grdI,       \* i of the outer loop over the cells
  grdJ,       \* j of the inner loop over the cells
  grdCount,   \* dcount2 (valpos / chan): the cells aggregated and stored so far
  grdSamples, \* nsamples of the cell aggregated last
  grdPhase    \* "cells", "compare"

grdVars == <<grdIn, grdI, grdJ, grdCount, grdSamples, grdPhase>>

vars == <<nldVars, extVars, supVars, pipeVars, refVars, dscVars, cmpVars, alcVars, msfVars, kcVars, detVars, cssVars, subVars, oriVars, grdVars>>

\* The variables an action of one part leaves alone.
notNld == <<extVars, supVars, pipeVars, refVars, dscVars, cmpVars, alcVars, msfVars, kcVars, detVars, cssVars, subVars, oriVars, grdVars>>
notExt == <<nldVars, supVars, pipeVars, refVars, dscVars, cmpVars, alcVars, msfVars, kcVars, detVars, cssVars, subVars, oriVars, grdVars>>
notSup == <<nldVars, extVars, pipeVars, refVars, dscVars, cmpVars, alcVars, msfVars, kcVars, detVars, cssVars, subVars, oriVars, grdVars>>
notPipe == <<nldVars, extVars, supVars, refVars, dscVars, cmpVars, alcVars, msfVars, kcVars, detVars, cssVars, subVars, oriVars, grdVars>>
notRef == <<nldVars, extVars, supVars, pipeVars, dscVars, cmpVars, alcVars, msfVars, kcVars, detVars, cssVars, subVars, oriVars, grdVars>>
notDsc == <<nldVars, extVars, supVars, pipeVars, refVars, cmpVars, alcVars, msfVars, kcVars, detVars, cssVars, subVars, oriVars, grdVars>>
notCmp == <<nldVars, extVars, supVars, pipeVars, refVars, dscVars, alcVars, msfVars, kcVars, detVars, cssVars, subVars, oriVars, grdVars>>
notAlc == <<nldVars, extVars, supVars, pipeVars, refVars, dscVars, cmpVars, msfVars, kcVars, detVars, cssVars, subVars, oriVars, grdVars>>
notMsf == <<nldVars, extVars, supVars, pipeVars, refVars, dscVars, cmpVars, alcVars, kcVars, detVars, cssVars, subVars, oriVars, grdVars>>
notKc == <<nldVars, extVars, supVars, pipeVars, refVars, dscVars, cmpVars, alcVars, msfVars, detVars, cssVars, subVars, oriVars, grdVars>>
notDet == <<nldVars, extVars, supVars, pipeVars, refVars, dscVars, cmpVars, alcVars, msfVars, kcVars, cssVars, subVars, oriVars, grdVars>>
notCss == <<nldVars, extVars, supVars, pipeVars, refVars, dscVars, cmpVars, alcVars, msfVars, kcVars, detVars, subVars, oriVars, grdVars>>
notSub == <<nldVars, extVars, supVars, pipeVars, refVars, dscVars, cmpVars, alcVars, msfVars, kcVars, detVars, cssVars, oriVars, grdVars>>
notOri == <<nldVars, extVars, supVars, pipeVars, refVars, dscVars, cmpVars, alcVars, msfVars, kcVars, detVars, cssVars, subVars, grdVars>>
notGrd == <<nldVars, extVars, supVars, pipeVars, refVars, dscVars, cmpVars, alcVars, msfVars, kcVars, detVars, cssVars, subVars, oriVars>>

\* Bounds of the model.
MaxRows == 3
MaxCols == 3
MaxSeed == 1

\* The input images of the model: a small family of integer images.
TestImage(seed, r, c) == ((seed + 1) * (2 * r + 3 * c + 1) + r * c) % 5
TestFlow(seed, r, c) == 1 + ((seed + r + 2 * c) % 3)

\* What an uninitialised pixel of a freshly created Lstep may hold.
StaleValues == {-7, 9}

\* A read through a row pointer; a read outside the buffer yields whatever is there.
At(m, r, c) ==
  IF r \in DOMAIN m /\ c \in DOMAIN m[r] THEN m[r][c] ELSE 0 - 99

\* (lf_c[j] + lf_n[j']) * (lt_n[j'] - lt_c[j]): one flux term of the stencil.
Flux(lt, lf, r, c, r2, c2) ==
  (At(lf, r, c) + At(lf, r2, c2)) * (At(lt, r2, c2) - At(lt, r, c))

\* The neighbours <<dr, dc>> whose flux enters the pixel of column c, per kind of row:
\* top row (lines 136-157), middle rows (lines 161-196), bottom row (lines 199-219).
\* The corners of the top and of the bottom row take no flux: they are set to zero.
Stencil_Mut(kind, c) ==
  IF c = 0 THEN {<<0, 1>>}
  ELSE IF c = cols - 1 THEN {<<0, 0 - 1>>}
  ELSE {<<0, 1>>, <<0, 0 - 1>>}
Stencil(kind, c) ==
  CASE kind = "top" ->
         IF c = 0 \/ c = cols - 1 THEN {}
         ELSE {<<0, 1>>, <<0, 0 - 1>>, <<1, 0>>}
    [] kind = "middle" ->
         IF c = 0 THEN {<<0, 1>>, <<1, 0>>, <<0 - 1, 0>>}
         ELSE IF c = cols - 1 THEN {<<0, 0 - 1>>, <<1, 0>>, <<0 - 1, 0>>}
         ELSE {<<0, 1>>, <<0, 0 - 1>>, <<1, 0>>, <<0 - 1, 0>>}
    [] kind = "bottom" ->
         IF c = 0 \/ c = cols - 1 THEN {}
         ELSE {<<0, 1>>, <<0, 0 - 1>>, <<0 - 1, 0>>}

\* step_r of one pixel: the sum of the flux terms of its stencil.
StepR(lt, lf, r, c, nbrs) ==
    (IF <<0, 1>> \in nbrs THEN Flux(lt, lf, r, c, r, c + 1) ELSE 0)
  + (IF <<0, 0 - 1>> \in nbrs THEN Flux(lt, lf, r, c, r, c - 1) ELSE 0)
  + (IF <<1, 0>> \in nbrs THEN Flux(lt, lf, r, c, r + 1, c) ELSE 0)
  + (IF <<0 - 1, 0>> \in nbrs THEN Flux(lt, lf, r, c, r - 1, c) ELSE 0)

\* The control flow of one lane, nld_step_scalar_one_lane(.., row_begin, row_end).
TopTaken_Mut(row_begin) == TRUE
TopTaken(row_begin) == row_begin = 0

MiddleEnd(row_end) == Min(rows - 1, row_end)

MiddleStart(row_begin) == IF TopTaken(row_begin) THEN 1 ELSE row_begin

BottomTaken(row_end) == row_end = rows

\* The value of the cursor `row` when the middle loop is left.
RowAfterMiddle(row_begin, row_end) == Max(MiddleStart(row_begin), MiddleEnd(row_end))

\* The row operations a lane performs, in program order.
LaneOps(row_begin, row_end) ==
  (IF TopTaken(row_begin) THEN << [kind |-> "top", row |-> 0] >> ELSE << >>)
  \o [k \in 1..Max(0, MiddleEnd(row_end) - MiddleStart(row_begin)) |->
        [kind |-> "middle", row |-> MiddleStart(row_begin) + k - 1]]
  \o (IF BottomTaken(row_end)
        THEN << [kind |-> "bottom", row |-> RowAfterMiddle(row_begin, row_end)] >>
        ELSE << >>)

\* The rows of Lt and of Lf an operation reads: the rows its stencils reach.
RowsRead(op) ==
  UNION {{op.row} \cup {op.row + n[1] : n \in Stencil(op.kind, c)} :
           c \in {c \in 0..(cols - 1) : Stencil(op.kind, c) # {}}}

\* The row values an operation stores through dst: dst[j] = step_r * step_size.
RowValue(lt, lf, step_size, op) ==
  [c \in 0..(cols - 1) |-> StepR(lt, lf, op.row, c, Stencil(op.kind, c)) * step_size]

\* A store of a whole row into a buffer; a store outside the buffer is not kept.
StoreRow(m, r, v) == IF r \in DOMAIN m THEN [m EXCEPT ![r] = v] ELSE m

\* The buffer the workers write: NonLinearScalarDiffusionStep is given Lstep (line 469).
StepTarget_Mut == "Lt"
StepTarget == "Lstep"

\* step_size = tsteps[j] * 0.5f (line 468); the model's step lists hold even numbers.
StepSize == tsteps[tj + 1] \div 2

\* The partitions of [0, rows) into contiguous non-empty ranges parallel_for_ may use.
RECURSIVE RangesFrom(_, _)
RangesFrom(start, cuts) ==
  IF start >= rows THEN << >>
  ELSE LET later == {c \in cuts : c > start}
           end == IF later = {} THEN rows
                  ELSE CHOOSE c \in later : \A d \in later : c <= d
       IN << <<start, end>> >> \o RangesFrom(end, cuts)

Partitions == {RangesFrom(0, cuts) : cuts \in SUBSET (1..(rows - 1))}

AllLanesDone ==
  \A w \in DOMAIN ranges : lanePos[w] = Len(LaneOps(ranges[w][1], ranges[w][2]))

NldInit ==
  /\ rows \in 2..MaxRows
  /\ cols \in 2..MaxCols
  /\ \E seed \in 0..MaxSeed :
       /\ Lt = [r \in 0..(rows - 1) |-> [c \in 0..(cols - 1) |-> TestImage(seed, r, c)]]
       /\ Lflow = [r \in 0..(rows - 1) |-> [c \in 0..(cols - 1) |-> TestFlow(seed, r, c)]]
  /\ \E g \in StaleValues :
       Lstep = [r \in 0..(rows - 1) |-> [c \in 0..(cols - 1) |-> g]]
  /\ tsteps = <<2, 4>>
  /\ tj = 0
  /\ nldPhase = "call"
  /\ ranges = << >>
  /\ lanePos = << >>
  /\ LtAtCall = Lt
  /\ LstepAtCall = Lstep
  /\ accesses = {}

\* non_linear_diffusion_step up to the hand-out of the ranges (lines 262-274):
\* Lstep.create keeps an allocated buffer; parallel_for_ splits [0, rows).
StartStep ==
  /\ nldPhase = "call"
  /\ tj < Len(tsteps)
  /\ \E p \in Partitions :
       /\ ranges' = p
       /\ lanePos' = [w \in DOMAIN p |-> 0]
  /\ nldPhase' = "running"
  /\ LtAtCall' = Lt
  /\ LstepAtCall' = Lstep
  /\ accesses' = {}
  /\ UNCHANGED <<rows, cols, Lt, Lflow, Lstep, tsteps, tj>>
  /\ UNCHANGED notNld

\* One row of one lane: the worker of range w computes the next row of its lane.
WorkerRow(w) ==
  /\ nldPhase = "running"
  /\ w \in DOMAIN ranges
  /\ lanePos[w] < Len(LaneOps(ranges[w][1], ranges[w][2]))
  /\ LET op == LaneOps(ranges[w][1], ranges[w][2])[lanePos[w] + 1]
         v == RowValue(Lt, Lflow, StepSize, op)
     IN /\ IF StepTarget = "Lstep"
             THEN Lstep' = StoreRow(Lstep, op.row, v) /\ Lt' = Lt
             ELSE Lt' = StoreRow(Lt, op.row, v) /\ Lstep' = Lstep
        /\ accesses' = accesses
             \cup {[w |-> w, n |-> lanePos[w], op |-> "read", buf |-> b, row |-> r,
                    at |-> op.row] : b \in {"Lt", "Lf"}, r \in RowsRead(op)}
             \cup {[w |-> w, n |-> lanePos[w], op |-> "write", buf |-> StepTarget,
                    row |-> op.row, at |-> op.row]}
  /\ lanePos' = [lanePos EXCEPT ![w] = @ + 1]
  /\ UNCHANGED <<rows, cols, Lflow, tsteps, tj, nldPhase, ranges, LtAtCall, LstepAtCall>>
  /\ UNCHANGED notNld

\* parallel_for_ returns once every range has completed.
Join ==
  /\ nldPhase = "running"
  /\ AllLanesDone
  /\ nldPhase' = "joined"
  /\ UNCHANGED <<rows, cols, Lt, Lflow, Lstep, tsteps, tj, ranges, lanePos,
                 LtAtCall, LstepAtCall, accesses>>
  /\ UNCHANGED notNld

\* add(e.Lt, Lstep, e.Lt) and the loop increment (lines 467-471).
AddStep ==
  /\ nldPhase = "joined"
  /\ Lt' = [r \in 0..(rows - 1) |-> [c \in 0..(cols - 1) |-> Lt[r][c] + Lstep[r][c]]]
  /\ tj' = tj + 1
  /\ nldPhase' = IF tj + 1 < Len(tsteps) THEN "call" ELSE "finished"
  /\ UNCHANGED <<rows, cols, Lflow, Lstep, tsteps, ranges, lanePos,
                 LtAtCall, LstepAtCall, accesses>>
  /\ UNCHANGED notNld

NldNext ==
  \/ StartStep
  \/ \E w \in 1..MaxRows : WorkerRow(w)
  \/ Join
  \/ AddStep

(***************************************************************************)
(* Part 2.  Find_Scale_Space_Extrema (lines 615-749).                      *)
(*                                                                         *)
(* Coordinates in original-image pixels are kept in half pixels (x2 = 2x), *)
(* squared sizes in hundredths, smax * sigma_size_ in thousandths, so that *)
(* every comparison of the code is an exact integer comparison.            *)
(***************************************************************************)
\* The options of the run: two octaves of two sublevels on a 240 x 240 image;
\* size0_sq_x100 is 100 * (soffset * derivative_factor)^2 = 100 * (1.6 * 1.5)^2.
Options ==
  [omax |-> 2, nsublevels |-> 2, img_width |-> 240, img_height |-> 240,
   size0_sq_x100 |-> 576]

RECURSIVE fastpow(_, _)
fastpow(b, e) == IF e <= 0 THEN 1 ELSE b * fastpow(b, e - 1)

NLevels == Options.omax * Options.nsublevels

\* evolution_[i], as Allocate_Memory_Evolution fills it (lines 53-75).  With two
\* sublevels esigma^2 = soffset^2 * 2^(sublevel + 2 * octave) is rational.
Evolution(i) ==
  LET o == i \div Options.nsublevels
      j == i % Options.nsublevels
  IN [octave |-> o, sublevel |-> j,
      cols |-> Options.img_width \div fastpow(2, o),
      rows |-> Options.img_height \div fastpow(2, o),
      size_sq_x100 |-> Options.size0_sq_x100 * fastpow(2, j + 2 * o)]

\* fRound(flt) = (int)(flt + 0.5f), on a value given in thousandths.
fRoundMilli(v) ==
  IF v + 500 >= 0 THEN (v + 500) \div 1000 ELSE 0 - ((0 - (v + 500)) \div 1000)

\* sigma_size_ = fRound(point.size / ratio) (line 665): the n with
\* (n - 1/2)^2 <= size^2 / ratio^2 < (n + 1/2)^2.
SigmaSize(i) ==
  LET r == fastpow(2, Evolution(i).octave)
      s == Evolution(i).size_sq_x100
  IN CHOOSE n \in 0..64 :
       /\ (n = 0 \/ 25 * (2 * n - 1) * (2 * n - 1) * r * r <= s)
       /\ s < 25 * (2 * n + 1) * (2 * n + 1) * r * r

\* smax in thousandths (lines 628-633): 10 * sqrt(2) and 12 * sqrt(2).
SmaxMilli(d) ==
  IF d = "MLDB_UPRIGHT" \/ d = "MLDB" THEN 14142
  ELSE IF d = "KAZE_UPRIGHT" \/ d = "KAZE" THEN 16971
  ELSE 0

\* is_out of the pixel (jx, ix) of level i (lines 694-702).
IsOut(d, i, jx, ix) ==
  LET reach == SmaxMilli(d) * SigmaSize(i)
      left_x == fRoundMilli(1000 * jx - reach) - 1
      right_x == fRoundMilli(1000 * jx + reach) + 1
      up_y == fRoundMilli(1000 * ix - reach) - 1
      down_y == fRoundMilli(1000 * ix + reach) + 1
  IN left_x < 0 \/ right_x >= Evolution(i).cols
     \/ up_y < 0 \/ down_y >= Evolution(i).rows

\* dist <= size * size, on doubled coordinate differences.
Within(dx2, dy2, size_sq_x100) == 25 * (dx2 * dx2 + dy2 * dy2) <= size_sq_x100

\* The levels a new point is compared with (lines 672-673).
ClassMatch_Mut(class_id, other) == class_id = other
ClassMatch_Coarser(class_id, other) == class_id + 1 = other \/ class_id = other
ClassMatch(class_id, other) == class_id - 1 = other \/ class_id = other

\* The comparison of responses that lets the new point take the place of an accepted
\* one (line 678).
Replaces(response, other) == response > other

\* The accepted candidates the new point (jx, ix) of level i overlaps, by index
\* (lines 670-677); the loop stops at the first of them.
Overlapped(aux, i, jx, ix) ==
  LET ratio == fastpow(2, Evolution(i).octave)
  IN {ik \in 1..Len(aux) :
        /\ ClassMatch(i, aux[ik].class_id)
        /\ Within(2 * jx * ratio - aux[ik].x2, 2 * ix * ratio - aux[ik].y2,
                  Evolution(i).size_sq_x100)}

FirstOf(S) == CHOOSE k \in S : \A m \in S : k <= m

\* The keypoint stored for the pixel (lines 660-667 and 706-713):
\* pt = pt * ratio + .5 * (ratio - 1), kept doubled.
StoredPoint(i, jx, ix, value) ==
  LET ratio == fastpow(2, Evolution(i).octave)
  IN [x2 |-> 2 * jx * ratio + (ratio - 1), y2 |-> 2 * ix * ratio + (ratio - 1),
      response |-> value, class_id |-> i, octave |-> Evolution(i).octave,
      size_sq_x100 |-> Evolution(i).size_sq_x100]

\* What the body of the scan does with a pixel that passed the detector filter
\* (lines 659-717): "push", "replace", "drop" (a better one is accepted) or "out".
Outcome(d, aux, i, jx, ix, value) ==
  LET hit == Overlapped(aux, i, jx, ix)
      is_repeated == hit # {} /\ Replaces(value, aux[FirstOf(hit)].response)
      is_extremum == hit = {} \/ is_repeated
  IN IF ~is_extremum THEN "drop"
     ELSE IF IsOut(d, i, jx, ix) THEN "out"
     ELSE IF is_repeated THEN "replace"
     ELSE "push"

Accumulate(d, aux, i, jx, ix, value) ==
  LET what == Outcome(d, aux, i, jx, ix, value)
  IN IF what = "push" THEN Append(aux, StoredPoint(i, jx, ix, value))
     ELSE IF what = "replace"
       THEN [aux EXCEPT ![FirstOf(Overlapped(aux, i, jx, ix))] =
                          StoredPoint(i, jx, ix, value)]
     ELSE aux

\* The second loop (lines 726-748): the survivors of the filter with the upper level.
DroppedByUpper(aux, i) ==
  \E j \in (i + 1)..Len(aux) :
    /\ aux[i].class_id + 1 = aux[j].class_id
    /\ Within(aux[i].x2 - aux[j].x2, aux[i].y2 - aux[j].y2, aux[i].size_sq_x100)
    /\ aux[i].response < aux[j].response

RECURSIVE KeepFrom(_, _)
KeepFrom(aux, i) ==
  IF i > Len(aux) THEN << >>
  ELSE (IF DroppedByUpper(aux, i) THEN << >> ELSE << aux[i] >>) \o KeepFrom(aux, i + 1)

\* Bounds of the model: how many pixels pass the detector filter, and their values.
MaxPeaks == 3
MaxResponse == 2

\* The pixels <<jx, ix>> of level i that may pass the detector filter in the model:
\* on the first octave three close to each other in the interior and one near the left
\* border, on the second octave the pixels that cover the first and the last of them.
PeakPixels(i) ==
  IF Evolution(i).octave = 0
    THEN {<<100, 100>>, <<104, 100>>, <<102, 101>>, <<30, 100>>}
    ELSE {<<50, 50>>, <<15, 50>>}

\* The order in which the three nested loops visit the pixels (lines 635-642).
ScanBefore(a, b) ==
  \/ a[1] < b[1]
  \/ a[1] = b[1] /\ a[2] < b[2]
  \/ a[1] = b[1] /\ a[2] = b[2] /\ a[3] < b[3]

ExtInit ==
  /\ descriptor \in {"KAZE", "MLDB"}
  /\ kpts_aux = << >>
  /\ kpts = << >>
  /\ scanAt = <<0 - 1, 0, 0>>
  /\ extPhase = "scan"
  /\ seen = << >>
  /\ auxBefore = << >>
  /\ lastOp = "none"

\* The scan reaches the next pixel that passes the detector filter (lines 649-657) and
\* runs the body of the filter on it (lines 659-717).  The pixels in between fail the
\* filter and change nothing.
ScanPixel(i, px, value) ==
  /\ extPhase = "scan"
  /\ Len(seen) < MaxPeaks
  /\ ScanBefore(scanAt, <<i, px[2], px[1]>>)
  /\ scanAt' = <<i, px[2], px[1]>>
  /\ kpts_aux' = Accumulate(descriptor, kpts_aux, i, px[1], px[2], value)
  /\ lastOp' = Outcome(descriptor, kpts_aux, i, px[1], px[2], value)
  /\ auxBefore' = kpts_aux
  /\ seen' = Append(seen, [class_id |-> i, jx |-> px[1], ix |-> px[2], response |-> value])
  /\ UNCHANGED <<descriptor, kpts, extPhase>>
  /\ UNCHANGED notExt

\* The scan ends and the second loop filters kpts_aux into kpts (lines 726-748).
FilterUpperScale ==
  /\ extPhase = "scan"
  /\ kpts' = KeepFrom(kpts_aux, 1)
  /\ extPhase' = "done"
  /\ UNCHANGED <<descriptor, kpts_aux, scanAt, seen, auxBefore, lastOp>>
  /\ UNCHANGED notExt

ExtNext ==
  \/ \E i \in 0..(NLevels - 1) : \E px \in PeakPixels(i) : \E value \in 1..MaxResponse :
       ScanPixel(i, px, value)
  \/ FilterUpperScale

(***************************************************************************)
(* Part 3.  The support window: the bounds check of Find_Scale_Space_Extrema *)
(* (lines 690-702), Do_Subpixel_Refinement (lines 803-811) and the samples   *)
(* of the six extractors (lines 1357-2031).  Positions are in thousandths of *)
(* a pixel of the keypoint's level.  The keypoint's angle is 0, so that the  *)
(* axes of the rotated extractors are those of the image (co = 1, si = 0).   *)
(***************************************************************************)
\* The extractor Compute_Descriptors runs per keypoint (lines 1097-1123).
Extractor(o) ==
  IF o.descriptor = "KAZE_UPRIGHT" THEN "Get_MSURF_Upright_Descriptor_64"
  ELSE IF o.descriptor = "KAZE" THEN "Get_MSURF_Descriptor_64"
  ELSE IF o.descriptor = "MLDB_UPRIGHT"
    THEN (IF o.descriptor_size = 0 THEN "Get_Upright_MLDB_Full_Descriptor"
          ELSE "Get_Upright_MLDB_Descriptor_Subset")
  ELSE (IF o.descriptor_size = 0 THEN "Get_MLDB_Full_Descriptor"
        ELSE "Get_MLDB_Descriptor_Subset")

\* (int)flt, on a value given in thousandths.
TruncMilli(v) == IF v >= 0 THEN v \div 1000 ELSE 0 - ((0 - v) \div 1000)

\* kpt.pt / ratio in the extractors (lines 1643-1644), from the pixel and the offset
\* dst(k) of the refinement: pt = (x + dst) * power + .5 * (power - 1) (lines 803-807).
LevelCoordMilli(i, x, dst) ==
  LET power == fastpow(2, Evolution(i).octave)
  IN 1000 * x + dst + (500 * (power - 1)) \div power

\* scale = fRound(0.5f * kpt.size / ratio) (line 1638), kpt.size being twice the size of
\* the level (line 811): the same rounding as sigma_size_.
KptScale(i) == SigmaSize(i)

\* sample_step[z] (lines 1648-1652).
SampleStep(P, z) ==
  IF z = 0 THEN P ELSE IF z = 1 THEN (2 * P + 2) \div 3 ELSE P \div 2

\* The values k and l take in grid z (lines 1658-1664).
GridOffsets(P, z) ==
  LET step == SampleStep(P, z)
      starts == {i \in (0 - P)..(P - 1) : (i + P) % step = 0}
  IN {i + m : i \in starts, m \in 0..(step - 1)}

\* The values k and l take in the upright M-SURF extractor (lines 1386-1406).
MsurfOffsets == {i + m : i \in {0 - 12, 0 - 7, 0 - 2, 3}, m \in 0..8}

SetMin(S) == CHOOSE a \in S : \A b \in S : a <= b
SetMax(S) == CHOOSE a \in S : \A b \in S : a >= b

\* The rows (or columns) y1, y2 (x1, x2) one grid computes around the position f:
\* y1 = (int)(sample_y - .5) and y2 = (int)(sample_y + .5) (lines 1416-1420),
\* y1 = fRound(sample_y - 0.5f) and y2 = fRound(sample_y + 0.5f) (lines 1544-1548),
\* y1 = fRound(sample_y) (lines 1670, 1737, 1895, 1975).
SamplesComputed(e, P, z, f, scale) ==
  IF e = "Get_MSURF_Upright_Descriptor_64"
    THEN {TruncMilli(f + 1000 * l * scale - 500) : l \in MsurfOffsets}
         \cup {TruncMilli(f + 1000 * l * scale + 500) : l \in MsurfOffsets}
  ELSE IF e = "Get_MSURF_Descriptor_64"
    THEN {fRoundMilli(f + 1000 * l * scale - 500) : l \in MsurfOffsets}
         \cup {fRoundMilli(f + 1000 * l * scale + 500) : l \in MsurfOffsets}
  ELSE {fRoundMilli(f + 1000 * l * scale) : l \in GridOffsets(P, z)}

\* min(max(0, y1), size[0] - 1) (lines 1553-1556 and 1745-1746).
Clip(v, size) == Min(Max(0, v), size - 1)

\* The extractors that clip y1, x1 (y2, x2) before they read: Get_MSURF_Descriptor_64
\* (lines 1550-1556) and MLDB_Fill_Values of Get_MLDB_Full_Descriptor (lines
\* 1740-1746).  The other four read at the values computed.
Clips(e) == e \in {"Get_MSURF_Descriptor_64", "Get_MLDB_Full_Descriptor"}

\* The rows (or columns) of the level buffers one grid reads around the position f,
\* size being the rows (or columns) of the level.
SamplesRead(e, P, z, f, scale, size) ==
  LET raw == SamplesComputed(e, P, z, f, scale)
  IN IF Clips(e) THEN {Clip(v, size) : v \in raw} ELSE raw

\* How many grids the extractor runs in the model: the three grids of the full binary
\* extractors, the one region of M-SURF and, for the subset extractors, the four cells
\* of grid 0, which the first six picks of generateDescriptorSubsample put in
\* descriptorSamples_ (lines 2092-2096); the cells of its later picks are left out.
GridCount(e) ==
  IF e \in {"Get_Upright_MLDB_Full_Descriptor", "Get_MLDB_Full_Descriptor"} THEN 3 ELSE 1

\* The box around two sets of rows and columns, joined with the box old.
BoxWith(old, ys, xs) ==
  LET new == [ymin |-> SetMin(ys), ymax |-> SetMax(ys),
              xmin |-> SetMin(xs), xmax |-> SetMax(xs)]
  IN IF old = << >> THEN new
     ELSE [ymin |-> Min(old.ymin, new.ymin), ymax |-> Max(old.ymax, new.ymax),
           xmin |-> Min(old.xmin, new.xmin), xmax |-> Max(old.xmax, new.xmax)]

\* The offsets the refinement accepts at their extremes, in thousandths (line 802).
AcceptedOffsets == {0 - 1000, 0, 1000}

\* The values of descriptor_pattern_size of the model: the default and a larger one.
PatternSizes == {10, 16}

\* The pixels of level i that pass the detector filter in the model: on the centre
\* column, near the upper and the lower border.
BorderPixels(i) ==
  {<<Evolution(i).cols \div 2, y>> :
     y \in {28, 29, 43, 44, Evolution(i).rows - 45, Evolution(i).rows - 30}}

\* descriptor_size is 0 (the full descriptor) or 64 bits, which makes
\* generateDescriptorSubsample take at least six picks for every channel count.
SupInit ==
  /\ supOptions \in [descriptor : {"KAZE_UPRIGHT", "KAZE", "MLDB_UPRIGHT", "MLDB"},
                     descriptor_size : {0, 64},
                     descriptor_pattern_size : PatternSizes]
  /\ supPeak = [class_id |-> 0, jx |-> 0, ix |-> 0]
  /\ supKpt = [x |-> 0, y |-> 0, scale |-> 0, class_id |-> 0]
  /\ supPhase = "detect"
  /\ supGrid = 0
  /\ readBox = << >>
  /\ rawBox = << >>

\* A pixel passes the detector filter and the bounds check decides (lines 690-716).
SupDetect(i, px) ==
  /\ supPhase = "detect"
  /\ supPeak' = [class_id |-> i, jx |-> px[1], ix |-> px[2]]
  /\ supPhase' = IF IsOut(supOptions.descriptor, i, px[1], px[2])
                   THEN "rejected" ELSE "accepted"
  /\ UNCHANGED <<supOptions, supKpt, supGrid, readBox, rawBox>>
  /\ UNCHANGED notSup

\* Do_Subpixel_Refinement accepts the keypoint with the offset dst (lines 802-812).
SupRefine(dstx, dsty) ==
  /\ supPhase = "accepted"
  /\ supKpt' = [x |-> LevelCoordMilli(supPeak.class_id, supPeak.jx, dstx),
                y |-> LevelCoordMilli(supPeak.class_id, supPeak.ix, dsty),
                scale |-> KptScale(supPeak.class_id),
                class_id |-> supPeak.class_id]
  /\ supPhase' = "refined"
  /\ UNCHANGED <<supOptions, supPeak, supGrid, readBox, rawBox>>
  /\ UNCHANGED notSup

\* The extractor of the variant samples one grid around the keypoint.
SupSampleGrid ==
  /\ supPhase \in {"refined", "sampling"}
  /\ LET e == Extractor(supOptions)
         P == supOptions.descriptor_pattern_size
         lv == Evolution(supKpt.class_id)
     IN /\ readBox' = BoxWith(readBox,
                         SamplesRead(e, P, supGrid, supKpt.y, supKpt.scale, lv.rows),
                         SamplesRead(e, P, supGrid, supKpt.x, supKpt.scale, lv.cols))
        /\ rawBox' = BoxWith(rawBox,
                        SamplesComputed(e, P, supGrid, supKpt.y, supKpt.scale),
                        SamplesComputed(e, P, supGrid, supKpt.x, supKpt.scale))
        /\ supGrid' = supGrid + 1
        /\ supPhase' = IF supGrid + 1 = GridCount(e) THEN "described" ELSE "sampling"
  /\ UNCHANGED <<supOptions, supPeak, supKpt>>
  /\ UNCHANGED notSup

SupNext ==
  \/ \E i \in 0..(NLevels - 1) : \E px \in BorderPixels(i) : SupDetect(i, px)
  \/ \E dstx \in AcceptedOffsets : \E dsty \in AcceptedOffsets : SupRefine(dstx, dsty)
  \/ SupSampleGrid

(***************************************************************************)
(* Part 4.  One run of the pipeline: the constructor (lines 29-40),        *)
(* Create_Nonlinear_Scale_Space (lines 414-478), Feature_Detection         *)
(* (lines 485-492) and Compute_Descriptors (lines 1068-1124).              *)
(***************************************************************************)
\* options_.descriptor >= AKAZE::DESCRIPTOR_MLDB_UPRIGHT: the binary variants.
IsBinary(d) == d = "MLDB_UPRIGHT" \/ d = "MLDB"

\* The bit capacity ssz of the full descriptor (lines 2049-2054).
FullBits(nchannels) == (6 + 36 + 120) * nchannels

\* The guard of generateDescriptorSubsample in the constructor (line 34).
SubsampleWanted_Mut(o) == o.descriptor_size > 0 /\ o.descriptor = "MLDB"
SubsampleWanted(o) == o.descriptor_size > 0 /\ IsBinary(o.descriptor)

\* CV_Assert(nbits <= ssz) (line 2056).
SubsampleFits(o) == o.descriptor_size <= FullBits(o.descriptor_channels)

\* The cases of the switch of compute_diffusivity (lines 364-380).
SupportedDiffusivity(v) ==
  v \in {"DIFF_PM_G1", "DIFF_PM_G2", "DIFF_WEICKERT", "DIFF_CHARBONNIER"}

\* evolution_.size() after Allocate_Memory_Evolution, on an image large enough for
\* every octave (lines 53-75).
EvolutionSize(o) == o.omax * o.nsublevels

\* Whether the extractor asserts on the channel count: only Get_MLDB_Full_Descriptor
\* does (line 1819).
ExtractorAsserts(o) ==
  Extractor(o) = "Get_MLDB_Full_Descriptor" /\ ~(o.descriptor_channels <= 3)

\* Bounds of the model.
MaxOctaves == 2
MaxSublevels == 2
MaxKpts == 2

\* The values of descriptor_size of the model: the full descriptor, one bit more than
\* one channel holds, one bit more than three channels hold.
DescriptorSizes == {0, FullBits(1) + 1, FullBits(3) + 1}

\* The values of descriptor_channels of the model: 0 and 4 are outside {1, 2, 3}.
ChannelCounts == 0..4

PipeInit ==
  /\ pipeOptions \in
       [descriptor : {"KAZE_UPRIGHT", "KAZE", "MLDB_UPRIGHT", "MLDB"},
        descriptor_size : DescriptorSizes,
        descriptor_channels : ChannelCounts,
        diffusivity : {"DIFF_PM_G1", "DIFF_PM_G2", "DIFF_WEICKERT", "DIFF_CHARBONNIER",
                       "unsupported"},
        omax : 1..MaxOctaves,
        nsublevels : 1..MaxSublevels]
  /\ pipePc = "new"
  /\ pipeLog = << >>
  /\ pipeError = "none"
  /\ pipeLevel = 0
  /\ pipeKpts = 0
  /\ pipeDone = 0

\* AKAZEFeatures::AKAZEFeatures (lines 29-40).
Construct ==
  /\ pipePc = "new"
  /\ IF SubsampleWanted(pipeOptions) /\ ~SubsampleFits(pipeOptions)
       THEN /\ pipePc' = "failed"
            /\ pipeError' = "nbits <= ssz"
            /\ pipeLog' = pipeLog
       ELSE /\ pipePc' = "constructed"
            /\ pipeError' = pipeError
            /\ pipeLog' = pipeLog
                 \o (IF SubsampleWanted(pipeOptions)
                       THEN << "generateDescriptorSubsample" >> ELSE << >>)
                 \o << "Allocate_Memory_Evolution" >>
  /\ UNCHANGED <<pipeOptions, pipeLevel, pipeKpts, pipeDone>>
  /\ UNCHANGED notPipe

\* Create_Nonlinear_Scale_Space, the first level (lines 417-422).
SmoothFirstLevel ==
  /\ pipePc = "constructed"
  /\ pipeLog' = Append(pipeLog, "GaussianBlur")
  /\ pipePc' = "smoothed"
  /\ UNCHANGED <<pipeOptions, pipeError, pipeLevel, pipeKpts, pipeDone>>
  /\ UNCHANGED notPipe

\* The return of a pyramid of one level (lines 424-429).
SingleLevelReturn ==
  /\ pipePc = "smoothed"
  /\ EvolutionSize(pipeOptions) = 1
  /\ pipeLog' = Append(pipeLog, "Compute_Determinant_Hessian_Response")
  /\ pipePc' = "pyramid"
  /\ UNCHANGED <<pipeOptions, pipeError, pipeLevel, pipeKpts, pipeDone>>
  /\ UNCHANGED notPipe

\* The contrast factor (lines 434-441).
ComputeContrast ==
  /\ pipePc = "smoothed"
  /\ EvolutionSize(pipeOptions) # 1
  /\ pipeLog' = Append(pipeLog, "compute_kcontrast")
  /\ pipeLevel' = 1
  /\ pipePc' = "level"
  /\ UNCHANGED <<pipeOptions, pipeError, pipeKpts, pipeDone>>
  /\ UNCHANGED notPipe

\* The head of the body of the level loop: resize or copy, smoothing and derivatives
\* of level i (lines 444-460).
PrepareLevel ==
  /\ pipePc = "level"
  /\ pipeLevel < EvolutionSize(pipeOptions)
  /\ pipeLog' = pipeLog \o << "GaussianBlur", "Scharr" >>
  /\ pipePc' = "prepared"
  /\ UNCHANGED <<pipeOptions, pipeError, pipeLevel, pipeKpts, pipeDone>>
  /\ UNCHANGED notPipe

\* compute_diffusivity (lines 356-381, called at line 463).
ComputeDiffusivity ==
  /\ pipePc = "prepared"
  /\ IF SupportedDiffusivity(pipeOptions.diffusivity)
       THEN /\ pipeLog' = Append(pipeLog, "compute_diffusivity")
            /\ pipePc' = "flow"
            /\ pipeError' = pipeError
       ELSE /\ pipeLog' = pipeLog
            /\ pipePc' = "failed"
            /\ pipeError' = "Diffusivity is not supported"
  /\ UNCHANGED <<pipeOptions, pipeLevel, pipeKpts, pipeDone>>
  /\ UNCHANGED notPipe

\* The FED loop of level i and the step to the next level (lines 465-472).
DiffuseLevel ==
  /\ pipePc = "flow"
  /\ pipeLog' = Append(pipeLog, "non_linear_diffusion_step")
  /\ pipeLevel' = pipeLevel + 1
  /\ pipePc' = "level"
  /\ UNCHANGED <<pipeOptions, pipeError, pipeKpts, pipeDone>>
  /\ UNCHANGED notPipe

\* The end of the level loop (lines 474-477).
FinishPyramid ==
  /\ pipePc = "level"
  /\ pipeLevel = EvolutionSize(pipeOptions)
  /\ pipeLog' = Append(pipeLog, "Compute_Determinant_Hessian_Response")
  /\ pipePc' = "pyramid"
  /\ UNCHANGED <<pipeOptions, pipeError, pipeLevel, pipeKpts, pipeDone>>
  /\ UNCHANGED notPipe

\* Feature_Detection (lines 485-492) leaves n keypoints.
Detect(n) ==
  /\ pipePc = "pyramid"
  /\ pipeKpts' = n
  /\ pipeLog' = Append(pipeLog, "Feature_Detection")
  /\ pipePc' = "detected"
  /\ UNCHANGED <<pipeOptions, pipeError, pipeLevel, pipeDone>>
  /\ UNCHANGED notPipe

\* Compute_Descriptors up to the dispatch (lines 1068-1095).
AllocateDescriptors ==
  /\ pipePc = "detected"
  /\ pipeLog' = Append(pipeLog, "descriptors.create")
  /\ pipeDone' = 0
  /\ pipePc' = "describing"
  /\ UNCHANGED <<pipeOptions, pipeError, pipeLevel, pipeKpts>>
  /\ UNCHANGED notPipe

\* The extractor of the variant on the next keypoint (lines 1097-1123).
DescribeKeypoint ==
  /\ pipePc = "describing"
  /\ pipeDone < pipeKpts
  /\ IF ExtractorAsserts(pipeOptions)
       THEN /\ pipePc' = "failed"
            /\ pipeError' = "descriptor_channels <= max_channels"
            /\ UNCHANGED <<pipeLog, pipeDone>>
       ELSE /\ pipeLog' = Append(pipeLog, Extractor(pipeOptions))
            /\ pipeDone' = pipeDone + 1
            /\ UNCHANGED <<pipePc, pipeError>>
  /\ UNCHANGED <<pipeOptions, pipeLevel, pipeKpts>>
  /\ UNCHANGED notPipe

\* Compute_Descriptors returns.
FinishDescriptors ==
  /\ pipePc = "describing"
  /\ pipeDone = pipeKpts
  /\ pipePc' = "described"
  /\ UNCHANGED <<pipeOptions, pipeLog, pipeError, pipeLevel, pipeKpts, pipeDone>>
  /\ UNCHANGED notPipe

PipeNext ==
  \/ Construct
  \/ SmoothFirstLevel
  \/ SingleLevelReturn
  \/ ComputeContrast
  \/ PrepareLevel
  \/ ComputeDiffusivity
  \/ DiffuseLevel
  \/ FinishPyramid
  \/ \E n \in 0..MaxKpts : Detect(n)
  \/ AllocateDescriptors
  \/ DescribeKeypoint
  \/ FinishDescriptors

(***************************************************************************)
(* Part 5.  Do_Subpixel_Refinement (lines 756-819).  The response values   *)
(* are integers and the 2 x 2 system is solved exactly: the offset is kept *)
(* as two numerators over one denominator, in lowest terms.                *)
(***************************************************************************)
Abs(a) == IF a < 0 THEN 0 - a ELSE a

RECURSIVE Gcd(_, _)
Gcd(a, b) == IF b = 0 THEN a ELSE Gcd(b, a % b)

\* The 3 x 3 neighbourhoods of Ldet around a candidate, rows y - 1, y, y + 1.  The centre
\* is a strict maximum, as the detector filter requires of a candidate.
Patches ==
  << << <<9, 9, 9>>, <<9, 10, 9>>, <<9, 9, 9>> >>,
     << <<9, 8, 4>>, <<8, 10, 9>>, <<4, 9, 9>> >>,
     << <<9, 9, 4>>, <<9, 10, 8>>, <<4, 9, 9>> >>,
     << <<9, 8, 3>>, <<8, 10, 9>>, <<3, 9, 9>> >>,
     << <<9, 8, 3>>, <<8, 10, 9>>, <<3, 8, 9>> >>,
     << <<8, 0, 0>>, <<9, 10, 9>>, <<0, 8, 8>> >> >>

\* *(Ldet.ptr<float>(y + dy) + x + dx) of the candidate's neighbourhood.
LdetAt(p, dy, dx) == Patches[p][dy + 2][dx + 2]

\* The gradient and the Hessian (lines 774-791), scaled to integers:
\* Dx2 = 2 Dx, Dy2 = 2 Dy, Dxy4 = 4 Dxy.
Dx2(p) == LdetAt(p, 0, 1) - LdetAt(p, 0, 0 - 1)
Dy2(p) == LdetAt(p, 1, 0) - LdetAt(p, 0 - 1, 0)
Dxx(p) == LdetAt(p, 0, 1) + LdetAt(p, 0, 0 - 1) - 2 * LdetAt(p, 0, 0)
Dyy(p) == LdetAt(p, 1, 0) + LdetAt(p, 0 - 1, 0) - 2 * LdetAt(p, 0, 0)
Dxy4(p) ==
  (LdetAt(p, 1, 1) + LdetAt(p, 0 - 1, 0 - 1))
    - (LdetAt(p, 0 - 1, 1) + LdetAt(p, 1, 0 - 1))

\* The system A dst = b (lines 794-798) multiplied by 4, by Cramer's rule:
\* dst = (Num0 / Det16, Num1 / Det16).
Det16(p) == (4 * Dxx(p)) * (4 * Dyy(p)) - Dxy4(p) * Dxy4(p)
Num0(p) == (0 - 2 * Dx2(p)) * (4 * Dyy(p)) - Dxy4(p) * (0 - 2 * Dy2(p))
Num1(p) == (4 * Dxx(p)) * (0 - 2 * Dy2(p)) - Dxy4(p) * (0 - 2 * Dx2(p))

LowestTerms(n0, n1, d) ==
  LET g == Gcd(Gcd(Abs(n0), Abs(n1)), Abs(d))
      sgn == IF d < 0 THEN 0 - 1 ELSE 1
  IN [n0 |-> sgn * (n0 \div g), n1 |-> sgn * (n1 \div g), d |-> sgn * (d \div g)]

ZeroOffset == [n0 |-> 0, n1 |-> 0, d |-> 1]

\* The values dst may hold after solve(A, b, dst, DECOMP_LU) (line 800), whose return
\* value is not looked at: the solution, or, when A is singular, what the solver leaves
\* in dst, its previous value or zeros.
SolveInto(p, prev) ==
  IF Det16(p) # 0 THEN {LowestTerms(Num0(p), Num1(p), Det16(p))}
  ELSE {prev, ZeroOffset}

\* fabs(dst(0)) <= 1.0f && fabs(dst(1)) <= 1.0f (line 802).
Stable_Mut(dst) == Abs(dst.n0) <= Abs(dst.d) \/ Abs(dst.n1) <= Abs(dst.d)
Stable(dst) == Abs(dst.n0) <= Abs(dst.d) /\ Abs(dst.n1) <= Abs(dst.d)

\* The accepted keypoint (lines 803-811): the offset is kept with the pixel, the
\* size is doubled.
Refined(k, dst) == [k EXCEPT !.offset = dst, !.size = 2 * k.size, !.refined = TRUE]

\* kpts.erase(kpts.begin() + i) (line 815).
EraseAt(list, n) == SubSeq(list, 1, n - 1) \o SubSeq(list, n + 1, Len(list))

\* The values of the loop index: size_t i (line 767) counts modulo 2^N.  N = 16 is the
\* least width the language allows for size_t; the sum below is the same for every N.
SizeRange == 2^16

\* The index after an erasure: i-- (line 816), then the i++ of the loop (line 767).
\* At i = 0 the decrement wraps to the largest size_t and the increment wraps back.
IndexAfterErase_Mut(i) == (i + 1) % SizeRange
IndexAfterErase(i) == (((i - 1) % SizeRange) + 1) % SizeRange

\* Bound of the model: the length of the candidate list.
MaxCands == 3

CandidateListsOf(octaves) ==
  UNION {[1..n -> [patch : DOMAIN Patches, octave : octaves]] : n \in 0..MaxCands}

CandidateLists == CandidateListsOf({0, 1})

RefStart(lists) ==
  /\ refInput \in lists
  /\ refKpts = [n \in DOMAIN refInput |->
                  [id |-> n, patch |-> refInput[n].patch, octave |-> refInput[n].octave,
                   size |-> 1, offset |-> ZeroOffset, refined |-> FALSE]]
  /\ refI = 0
  /\ refDst = ZeroOffset
  /\ refPhase = "loop"
  /\ refTrace = << >>

RefInit == RefStart(CandidateLists)

\* The lists of the first octave alone: the loop index does not depend on the octave.
RefInitOneOctave == RefStart(CandidateListsOf({0}))

\* One pass of the body of the loop (lines 767-818).
RefineCandidate ==
  /\ refPhase = "loop"
  /\ refI < Len(refKpts)
  /\ LET k == refKpts[refI + 1]
     IN \E dst \in SolveInto(k.patch, refDst) :
          /\ refDst' = dst
          /\ IF Stable(dst)
               THEN /\ refKpts' = [refKpts EXCEPT ![refI + 1] = Refined(k, dst)]
                    /\ refI' = refI + 1
                    /\ refTrace' = Append(refTrace, [id |-> k.id, kept |-> TRUE])
               ELSE /\ refKpts' = EraseAt(refKpts, refI + 1)
                    /\ refI' = IndexAfterErase(refI)
                    /\ refTrace' = Append(refTrace, [id |-> k.id, kept |-> FALSE])
  /\ UNCHANGED <<refPhase, refInput>>
  /\ UNCHANGED notRef

\* The loop ends (line 767).
RefineReturn ==
  /\ refPhase = "loop"
  /\ ~(refI < Len(refKpts))
  /\ refPhase' = "done"
  /\ UNCHANGED <<refKpts, refI, refDst, refInput, refTrace>>
  /\ UNCHANGED notRef

RefNext == RefineCandidate \/ RefineReturn

(***************************************************************************)
(* Part 6.  One row of the binary descriptor matrix: descriptors.create    *)
(* (lines 1081-1093) and the bit writes of MLDB_Binary_Comparisons         *)
(* (lines 1784-1807) and Get_MLDB_Descriptor_Subset (lines 1928-1938),     *)
(* run twice on the same keypoint and pyramid.  A byte is an integer in    *)
(* 0..255.                                                                 *)
(***************************************************************************)
\* (int)ceil(t / 8.) (lines 1085 and 1089).
CeilDiv8_Mut(t) == t \div 8
CeilDiv8(t) == (t + 7) \div 8

\* The bits of a row the extractor is to write, and the bytes of the row.
RowBits(o) ==
  IF o.descriptor_size = 0 THEN FullBits(o.descriptor_channels) ELSE o.descriptor_size
RowBytes(o) == CeilDiv8(RowBits(o))

\* desc[dpos >> 3] |= (1 << (dpos & 7)) and desc[dpos >> 3] &= ~(1 << (dpos & 7)).
BitIsSet(byte, k) == (byte \div fastpow(2, k)) % 2 = 1
SetBit(byte, k) == IF BitIsSet(byte, k) THEN byte ELSE byte + fastpow(2, k)
ClearBit(byte, k) == IF BitIsSet(byte, k) THEN byte - fastpow(2, k) ELSE byte

\* The outcome of the comparison behind bit n: a function of the keypoint and the
\* pyramid only.
Compare(key, n) == ((key + 1) * (n + 1) + n \div 3) % 3 = 0

\* The bits first .. last - 1 of a row are written one after the other, each into its
\* byte; the byte at index b (from 0) after the writes to its bits k .. 7.
RECURSIVE ByteAfter(_, _, _, _, _, _)
ByteAfter(byte, b, k, key, first, last) ==
  IF k > 7 THEN byte
  ELSE LET n == 8 * b + k
           written == IF n < first \/ n >= last THEN byte
                      ELSE IF Compare(key, n) THEN SetBit(byte, k)
                      ELSE ClearBit(byte, k)
       IN ByteAfter(written, b, k + 1, key, first, last)

WriteBits(row, key, first, last) ==
  [b \in DOMAIN row |-> ByteAfter(row[b], b - 1, 0, key, first, last)]

\* The comparisons of grid lvl, in every channel (lines 1791-1793): count values.
GridComparisons(o, lvl) ==
  LET count == (lvl + 2) * (lvl + 2)
  IN o.descriptor_channels * ((count * (count - 1)) \div 2)

\* What the storage of the row may hold when descriptors.create returns: the bytes of
\* an earlier use of the matrix or of the heap.  create does not clear it.
StaleBytes == {0, 255}

\* Bound of the model: the keypoints (and pyramids) told apart.
MaxKey == 1

\* The values of descriptor_size of the model: the full descriptor, and two bit lengths
\* of the subset extractor, one that fills its last byte and one that does not.
SubsetSizes == {0, 16, 20}

DscInit ==
  /\ dscOptions \in [descriptor_size : SubsetSizes, descriptor_channels : 1..3]
  /\ dscKey \in 0..MaxKey
  /\ dscRow = << << >>, << >> >>
  /\ dscPos = 0
  /\ dscLvl = 0
  /\ dscPhase = "start"

\* descriptors.create in the two runs (lines 1081-1093).
DscCreate(stale1, stale2) ==
  /\ dscPhase = "start"
  /\ dscRow' = << [b \in 1..RowBytes(dscOptions) |-> stale1],
                  [b \in 1..RowBytes(dscOptions) |-> stale2] >>
  /\ dscPhase' = "created"
  /\ UNCHANGED <<dscOptions, dscKey, dscPos, dscLvl>>
  /\ UNCHANGED notDsc

\* MLDB_Binary_Comparisons on grid lvl (lines 1784-1807), in the two runs.
BinaryComparisons ==
  /\ dscPhase = "created"
  /\ dscOptions.descriptor_size = 0
  /\ LET last == dscPos + GridComparisons(dscOptions, dscLvl)
     IN /\ dscRow' = [run \in 1..2 |-> WriteBits(dscRow[run], dscKey, dscPos, last)]
        /\ dscPos' = last
  /\ dscLvl' = dscLvl + 1
  /\ dscPhase' = IF dscLvl + 1 = 3 THEN "done" ELSE "created"
  /\ UNCHANGED <<dscOptions, dscKey>>
  /\ UNCHANGED notDsc

\* The comparisons of Get_MLDB_Descriptor_Subset (lines 1928-1938), in the two runs:
\* descriptorBits_.rows is descriptor_size.
SubsetComparisons ==
  /\ dscPhase = "created"
  /\ dscOptions.descriptor_size # 0
  /\ dscRow' = [run \in 1..2 |->
                  WriteBits(dscRow[run], dscKey, 0, dscOptions.descriptor_size)]
  /\ dscPos' = dscOptions.descriptor_size
  /\ dscPhase' = "done"
  /\ UNCHANGED <<dscOptions, dscKey, dscLvl>>
  /\ UNCHANGED notDsc

DscNext ==
  \/ \E stale1 \in StaleBytes : \E stale2 \in StaleBytes : DscCreate(stale1, stale2)
  \/ BinaryComparisons
  \/ SubsetComparisons

(***************************************************************************)
(* Part 7.  Compute_Descriptors (lines 1068-1124): descriptors.create, the *)
(* parallel_for_ over the keypoints, and the stores each extraction makes  *)
(* through its row pointer desc = descriptors_->ptr(i).  One step of a     *)
(* range is one extraction; the ranges interleave freely.                  *)
(***************************************************************************)
\* The columns and the type descriptors.create is called with (lines 1078-1091).
MatCols(o) ==
  IF ~IsBinary(o.descriptor) THEN 64
  ELSE IF o.descriptor_size = 0 THEN CeilDiv8(FullBits(o.descriptor_channels))
  ELSE CeilDiv8(o.descriptor_size)

MatType(o) == IF ~IsBinary(o.descriptor) THEN "CV_32FC1" ELSE "CV_8UC1"

\* The bits an extraction stores, counted from its row pointer: dcount1 at the end of
\* Get_Upright_MLDB_Full_Descriptor (three bits per pair of cells, lines 1697-1710),
\* dpos at the end of Get_MLDB_Full_Descriptor (one bit per pair and channel, lines
\* 1791-1805), descriptorBits_.rows in the subset extractors (lines 1932, 2023).
BitsStored(o) ==
  IF Extractor(o) = "Get_Upright_MLDB_Full_Descriptor" THEN 3 * (6 + 36 + 120)
  ELSE IF Extractor(o) = "Get_MLDB_Full_Descriptor" THEN FullBits(o.descriptor_channels)
  ELSE o.descriptor_size

\* The cells an extraction stores into, counted from its row pointer: desc[0..63] in
\* the two MSURF extractors, the bytes of its bits in the binary ones.
CellsStored(o) == IF ~IsBinary(o.descriptor) THEN 64 ELSE CeilDiv8(BitsStored(o))

\* The float an MSURF extractor stores into desc[e]: a function of the keypoint and
\* the pyramid only.
FloatCell(key, e) == ((key + 2) * (e + 1)) % 5

\* The matrix after the extraction of keypoint i (from 0): its row pointer is cell
\* i * cols (descriptors_->ptr(i)).  Stores behind the last cell of the matrix land
\* outside data.
ExtractInto(data, ncols, o, keys, i) ==
  LET base == i * ncols
      key == keys[i + 1]
  IN [b \in DOMAIN data |->
        IF IsBinary(o.descriptor)
          THEN ByteAfter(data[b], b - 1 - base, 0, key, 0, BitsStored(o))
          ELSE IF b - 1 - base \in 0..63 THEN FloatCell(key, b - 1 - base) ELSE data[b]]

\* The rows the extraction of keypoint i stores into; nrows stands for the storage
\* behind the matrix.
RowsStored(o, ncols, nrows, i) ==
  {Min((i * ncols + m) \div ncols, nrows) : m \in 0..(CellsStored(o) - 1)}

\* Range(0, (int)kpts.size()) cut into consecutive ranges by parallel_for_.
RECURSIVE KptRangesFrom(_, _, _)
KptRangesFrom(start, n, cuts) ==
  IF start >= n THEN << >>
  ELSE LET later == {c \in cuts : c > start}
           end == IF later = {} THEN n
                  ELSE CHOOSE c \in later : \A d \in later : c <= d
       IN << <<start, end>> >> \o KptRangesFrom(end, n, cuts)

KptPartitions(n) == {KptRangesFrom(0, n, cuts) : cuts \in SUBSET (1..(n - 1))}

\* Bound of the model: the keypoints handed to Compute_Descriptors.
MaxDescKpts == 2

\* The values of descriptor_size of the model: the full descriptor, a subset that ends
\* inside a byte, and the 256 bits three channels hold and one channel does not.
CmpSizes == {0, 20, 256}

CmpInit ==
  /\ cmpOptions \in {o \in [descriptor : {"KAZE_UPRIGHT", "KAZE", "MLDB_UPRIGHT", "MLDB"},
                            descriptor_size : CmpSizes,
                            descriptor_channels : 1..3] :
                       SubsampleWanted(o) => SubsampleFits(o)}
  /\ \E n \in 0..MaxDescKpts : \E seed \in 0..MaxKey :
       cmpKpts = [i \in 1..n |-> (seed + i) % (MaxKey + 1)]
  /\ cmpRows = 0
  /\ cmpCols = 0
  /\ cmpType = "none"
  /\ cmpData = << >>
  /\ cmpAtCreate = << >>
  /\ cmpRanges = << >>
  /\ cmpPos = << >>
  /\ cmpWrites = {}
  /\ cmpPhase = "start"

\* descriptors.create and the dispatch of parallel_for_ (lines 1078-1123).  create
\* does not clear the storage.
CmpCreate(stale, p) ==
  /\ cmpPhase = "start"
  /\ cmpRows' = Len(cmpKpts)
  /\ cmpCols' = MatCols(cmpOptions)
  /\ cmpType' = MatType(cmpOptions)
  /\ cmpData' = [b \in 1..(Len(cmpKpts) * MatCols(cmpOptions)) |-> stale]
  /\ cmpAtCreate' = cmpData'
  /\ cmpRanges' = p
  /\ cmpPos' = [w \in DOMAIN p |-> p[w][1]]
  /\ cmpPhase' = "running"
  /\ UNCHANGED <<cmpOptions, cmpKpts, cmpWrites>>
  /\ UNCHANGED notCmp

\* One turn of the loop of operator()(const Range&) of the invoker dispatched (lines
\* 885-891, 911-917, 938-944, 973-979, 1004-1010, 1043-1049): Get_X((*keypoints_)[i],
\* descriptors_->ptr(i)).
CmpExtract(w) ==
  /\ cmpPhase = "running"
  /\ cmpPos[w] < cmpRanges[w][2]
  /\ LET i == cmpPos[w]
     IN /\ cmpData' = ExtractInto(cmpData, cmpCols, cmpOptions, cmpKpts, i)
        /\ cmpWrites' = cmpWrites \cup
                          {<<i, r>> : r \in RowsStored(cmpOptions, cmpCols, cmpRows, i)}
        /\ cmpPos' = [cmpPos EXCEPT ![w] = i + 1]
  /\ UNCHANGED <<cmpOptions, cmpKpts, cmpRows, cmpCols, cmpType, cmpAtCreate, cmpRanges,
                 cmpPhase>>
  /\ UNCHANGED notCmp

\* parallel_for_ returns when every range is done.
CmpJoin ==
  /\ cmpPhase = "running"
  /\ \A w \in DOMAIN cmpRanges : cmpPos[w] = cmpRanges[w][2]
  /\ cmpPhase' = "done"
  /\ UNCHANGED <<cmpOptions, cmpKpts, cmpRows, cmpCols, cmpType, cmpData, cmpAtCreate,
                 cmpRanges, cmpPos, cmpWrites>>
  /\ UNCHANGED notCmp

CmpNext ==
  \/ \E stale \in StaleBytes : \E p \in KptPartitions(Len(cmpKpts)) : CmpCreate(stale, p)
  \/ \E w \in DOMAIN cmpRanges : CmpExtract(w)
  \/ CmpJoin

(***************************************************************************)
(* Part 8.  Allocate_Memory_Evolution (lines 46-89): the loop over the     *)
(* octaves that fills evolution_, and the loop over the levels that fills  *)
(* nsteps_ and tsteps_.  Scales are in thousandths, times in millionths.   *)
(***************************************************************************)
\* (int)(options_.img_height*rfactor) with rfactor = 1.0f / power (lines 54-56): the
\* product is exact for a power of two, the cast drops the fraction.
LevelDim_Mut(dim, power) == dim
LevelDim(dim, power) == dim \div power

\* (level_width < 80 || level_height < 40) && i != 0 (line 59).
TooSmall_Mut(w, h, i) == w < 80 \/ h < 40
TooSmall(w, h, i) == (w < 80 \/ h < 40) /\ i # 0

\* pow(2.f, (float)(j) / (float)(nsublevels)) in thousandths, for nsublevels 1 .. 5.
Pow2Table ==
  << <<1000>>,
     <<1000, 1414>>,
     <<1000, 1260, 1587>>,
     <<1000, 1189, 1414, 1682>>,
     <<1000, 1149, 1320, 1516, 1741>> >>

\* step.esigma = soffset * pow(2.f, j / nsublevels + i) (line 67), in thousandths.
EsigmaMilli_Mut(o, i, j) == (o.soffset * Pow2Table[o.nsublevels][j + 1]) \div 1000
EsigmaMilli(o, i, j) ==
  (o.soffset * Pow2Table[o.nsublevels][j + 1] * fastpow(2, i)) \div 1000

\* One Evolution step as the inner loop fills it (lines 64-74); derivative_factor is
\* 1.5.
EvolutionStep(o, i, power, j) ==
  LET esigma == EsigmaMilli(o, i, j)
  IN [width |-> LevelDim(o.img_width, power),
      height |-> LevelDim(o.img_height, power),
      esigma |-> esigma,
      sigma_size |-> fRoundMilli((esigma * 3) \div (2 * power)),
      etime |-> (esigma * esigma) \div 2,
      octave |-> i,
      sublevel |-> j,
      octave_ratio |-> power]

\* Bounds of the model: options_.omax and options_.nsublevels.
MaxAlcOctaves == 3
MaxAlcSublevels == 3

\* The image sizes of the model: on both sides of 80 x 40 after no, one and two
\* halvings, odd sizes included.
AlcWidths == {79, 80, 159, 160, 161, 320, 640}
AlcHeights == {39, 40, 79, 80, 81, 160, 320}

AlcInit ==
  /\ alcOptions \in [omax : 1..MaxAlcOctaves, nsublevels : 1..MaxAlcSublevels,
                     img_width : AlcWidths, img_height : AlcHeights,
                     soffset : {800, 1600}]
  /\ alcOmaxAtCall = alcOptions.omax
  /\ alcI = 0
  /\ alcPower = 1
  /\ alcEvolution = << >>
  /\ alcTtime = << >>
  /\ alcCycles = 0
  /\ alcPhase = "octaves"

\* One turn of the loop over the octaves that pushes its levels (lines 53-75).
AlcOctave ==
  /\ alcPhase = "octaves"
  /\ alcI <= alcOptions.omax - 1
  /\ ~TooSmall(LevelDim(alcOptions.img_width, alcPower),
               LevelDim(alcOptions.img_height, alcPower), alcI)
  /\ alcEvolution' = alcEvolution \o
       [k \in 1..alcOptions.nsublevels |->
          EvolutionStep(alcOptions, alcI, alcPower, k - 1)]
  /\ alcI' = alcI + 1
  /\ alcPower' = alcPower * 2
  /\ UNCHANGED <<alcOptions, alcOmaxAtCall, alcTtime, alcCycles, alcPhase>>
  /\ UNCHANGED notAlc

\* The turn that finds the octave too small: options_.omax = i; break (lines 59-62).
AlcClamp ==
  /\ alcPhase = "octaves"
  /\ alcI <= alcOptions.omax - 1
  /\ TooSmall(LevelDim(alcOptions.img_width, alcPower),
              LevelDim(alcOptions.img_height, alcPower), alcI)
  /\ alcOptions' = [alcOptions EXCEPT !.omax = alcI]
  /\ alcI' = 1
  /\ alcPhase' = "times"
  /\ UNCHANGED <<alcOmaxAtCall, alcPower, alcEvolution, alcTtime, alcCycles>>
  /\ UNCHANGED notAlc

\* The loop over the octaves ends by its condition (line 53).
AlcOctavesEnd ==
  /\ alcPhase = "octaves"
  /\ ~(alcI <= alcOptions.omax - 1)
  /\ alcI' = 1
  /\ alcPhase' = "times"
  /\ UNCHANGED <<alcOptions, alcOmaxAtCall, alcPower, alcEvolution, alcTtime, alcCycles>>
  /\ UNCHANGED notAlc

\* One turn of the loop over the levels (lines 78-87): the process time of level i.
AlcTimeSteps ==
  /\ alcPhase = "times"
  /\ alcI < Len(alcEvolution)
  /\ alcTtime' = Append(alcTtime,
                        alcEvolution[alcI + 1].etime - alcEvolution[alcI].etime)
  /\ alcCycles' = alcCycles + 1
  /\ alcI' = alcI + 1
  /\ UNCHANGED <<alcOptions, alcOmaxAtCall, alcPower, alcEvolution, alcPhase>>
  /\ UNCHANGED notAlc

\* The loop over the levels ends and Allocate_Memory_Evolution returns (line 88).
AlcReturn ==
  /\ alcPhase = "times"
  /\ ~(alcI < Len(alcEvolution))
  /\ alcPhase' = "done"
  /\ UNCHANGED <<alcOptions, alcOmaxAtCall, alcI, alcPower, alcEvolution, alcTtime,
                 alcCycles>>
  /\ UNCHANGED notAlc

AlcNext == AlcOctave \/ AlcClamp \/ AlcOctavesEnd \/ AlcTimeSteps \/ AlcReturn

(***************************************************************************)
(* Part 9.  Get_MSURF_Upright_Descriptor_64 (lines 1357-1470) and          *)
(* Get_MSURF_Descriptor_64 (lines 1482-1608): the sums of the 16           *)
(* subregions, len, and the division of the 64 values by sqrt(len).  The   *)
(* keypoint lies on a pixel of its level and its angle is a multiple of a  *)
(* quarter turn, so samples, sines and cosines are integers.               *)
(***************************************************************************)
\* The gradient fields of the model, Mx (c = 1) and My (c = 2) of the level at pixel
\* (y, x): field 0 is a level without gradient, the others hold few non-zero pixels.
GradAt(field, c, y, x) ==
  CASE field = 0 -> 0
    [] field = 1 -> IF c = 1 THEN (IF x % 3 = 0 /\ y % 3 = 0 THEN 1 ELSE 0)
                    ELSE (IF (x + y) % 5 = 0 THEN 0 - 1 ELSE 0)
    [] OTHER -> IF c = 2 /\ x = 41 /\ y = 38 THEN field ELSE 0

\* gaussian(xs - sample_x, ys - sample_y, 2.5f*scale) in hundredths (lines 1414, 1543):
\* exp(-d / 12.5) for the squared distance d * scale^2 of the sample from the centre
\* of its subregion.
Gauss1 ==
  <<100, 92, 85, 79, 73, 67, 62, 57, 53, 49, 45, 41, 38, 35, 33, 30, 28, 26, 24, 22,
    20, 19, 17, 16, 15, 14, 12, 12, 11, 10, 9, 8, 8, 7, 7, 6, 6, 5, 5, 4, 4, 4, 3, 3,
    3, 3, 3, 2, 2, 2, 2>>

\* gaussian(cx - 2.0f, cy - 2.0f, 1.5f) in tenths (lines 1449, 1585), for the
\* subregion (ci, cj) of 0..3 x 0..3: exp(-d / 4.5) with d = 0.5, 2.5 or 4.5.
Gauss2(ci, cj) ==
  LET d2 == (2 * ci - 3) * (2 * ci - 3) + (2 * cj - 3) * (2 * cj - 3)
  IN IF d2 = 2 THEN 9 ELSE IF d2 = 10 THEN 6 ELSE 4

\* The sample n = 0 .. 80 of the subregion (ci, cj), the turn k = i + n / 9,
\* l = j + n % 9 of the two for loops (lines 1408-1445 and 1533-1581): the pair of
\* weighted responses added to dx and dy.  The loops start at i = -12 + 5 * ci and
\* j = -12 + 5 * cj; the sample is weighted by its distance from (ky, kx) =
\* (i + 5, j + 5); the keypoint lies on pixel (40, 40) of its level.
Sample(kpt, ci, cj, n) ==
  LET k == 5 * ci - 12 + (n \div 9)
      l == 5 * cj - 12 + (n % 9)
      co == <<1, 0, 0 - 1, 0>>[kpt.turns + 1]
      si == <<0, 1, 0, 0 - 1>>[kpt.turns + 1]
      up == kpt.variant = "upright"
      sy == IF up THEN k * kpt.scale + 40
            ELSE 40 + (l * kpt.scale * co + k * kpt.scale * si)
      sx == IF up THEN l * kpt.scale + 40
            ELSE 40 + (k * kpt.scale * co - l * kpt.scale * si)
      g1 == Gauss1[(5 - (n \div 9)) * (5 - (n \div 9)) + (5 - (n % 9)) * (5 - (n % 9)) + 1]
      rx == GradAt(kpt.field, 1, sy, sx)
      ry == GradAt(kpt.field, 2, sy, sx)
  IN IF up THEN <<g1 * rx, g1 * ry>>
     ELSE <<g1 * (ry * co - rx * si), g1 * (rx * co + ry * si)>>

\* dx (c = 1), dy (c = 2), mdx (c = 3) and mdy (c = 4) of the subregion (ci, cj): the
\* sum over the samples lo .. hi (lines 1441-1445, 1577-1581).
RECURSIVE CellSum(_, _, _, _, _, _)
CellSum(kpt, ci, cj, c, lo, hi) ==
  IF lo = hi
    THEN LET r == Sample(kpt, ci, cj, lo)
         IN IF c <= 2 THEN r[c] ELSE Abs(r[c - 2])
    ELSE CellSum(kpt, ci, cj, c, lo, (lo + hi) \div 2)
           + CellSum(kpt, ci, cj, c, (lo + hi) \div 2 + 1, hi)

\* desc[i] /= len with len = sqrt(lensq) (lines 1465-1469, 1603-1607): the quotient
\* num / sqrt(lensq), and the float NaN that 0 / 0 is.
Quotient(num, lensq) == [nan |-> lensq = 0, num |-> num, lensq |-> lensq]

MsurfInit ==
  /\ msfKpt \in [variant : {"upright", "rotated"}, turns : 0..3, scale : 1..2,
                 field : 0..(MaxSeed + 1)]
  /\ msfKpt.variant = "upright" => msfKpt.turns = 0
  /\ msfCell = 0
  /\ msfDesc = << >>
  /\ msfLen = 0
  /\ msfOut = << >>
  /\ msfPhase = "cells"

\* One turn of the inner while loop: the four values of a subregion and its share of
\* len (lines 1399-1458, 1525-1596).
MsurfCell ==
  /\ msfPhase = "cells"
  /\ msfCell < 16
  /\ LET ci == msfCell \div 4
         cj == msfCell % 4
         dx == CellSum(msfKpt, ci, cj, 1, 0, 80)
         dy == CellSum(msfKpt, ci, cj, 2, 0, 80)
         mdx == CellSum(msfKpt, ci, cj, 3, 0, 80)
         mdy == CellSum(msfKpt, ci, cj, 4, 0, 80)
         g2 == Gauss2(ci, cj)
     IN /\ msfDesc' = msfDesc \o <<dx * g2, dy * g2, mdx * g2, mdy * g2>>
        /\ msfLen' = msfLen + (dx * dx + dy * dy + mdx * mdx + mdy * mdy) * g2 * g2
  /\ msfCell' = msfCell + 1
  /\ UNCHANGED <<msfKpt, msfOut, msfPhase>>
  /\ UNCHANGED notMsf

\* convert to unit vector (lines 1464-1469, 1602-1607).
MsurfNormalize ==
  /\ msfPhase = "cells"
  /\ msfCell = 16
  /\ msfOut' = [e \in 1..64 |-> Quotient(msfDesc[e], msfLen)]
  /\ msfPhase' = "done"
  /\ UNCHANGED <<msfKpt, msfCell, msfDesc, msfLen>>
  /\ UNCHANGED notMsf

MsurfNext == MsurfCell \/ MsurfNormalize

(***************************************************************************)
(* Part 10.  compute_kcontrast (lines 286-335).  Gradient magnitudes are   *)
(* kept as their squares; the value returned is in thousandths.            *)
(***************************************************************************)
\* Lx (c = 1) and Ly (c = 2) at pixel (y, x): field 0 is the gradient of a uniform
\* image, field 1 is non-zero on the border pixels only, the others everywhere.
KcGrad(field, c, y, x, nrows, ncols) ==
  IF field = 0 THEN 0
  ELSE IF field = 1
    THEN (IF y = 0 \/ x = 0 \/ y = nrows - 1 \/ x = ncols - 1 THEN 1 ELSE 0)
  ELSE (x + 2 * y + c + field) % 3

\* lx[j] * lx[j] + ly[j] * ly[j] of the interior pixel (i, j) (line 305).
ModgSq(in, i, j) ==
  KcGrad(in.field, 1, i, j, in.rows, in.cols) * KcGrad(in.field, 1, i, j, in.rows, in.cols)
    + KcGrad(in.field, 2, i, j, in.rows, in.cols) * KcGrad(in.field, 2, i, j, in.rows, in.cols)

\* The pixels the loops visit (lines 299-310) and hmax squared.
KcInterior(in) == (1..(in.rows - 2)) \X (1..(in.cols - 2))
HmaxSq(in) ==
  IF KcInterior(in) = {} THEN 0
  ELSE LET p == CHOOSE q \in KcInterior(in) :
                  \A r \in KcInterior(in) : ModgSq(in, r[1], r[2]) <= ModgSq(in, q[1], q[2])
       IN ModgSq(in, p[1], p[2])

\* if (hmax == 0.0f) (line 313).
IsBlank_Mut(hmaxsq) == hmaxsq < 0
IsBlank(hmaxsq) == hmaxsq = 0

\* hist[k] (lines 317-322): the interior pixels with (int)(modg * (nbins - 1) / hmax)
\* = k, that is k^2 * hmax^2 <= (nbins - 1)^2 * modg^2 < (k + 1)^2 * hmax^2.
Hist(in, k) ==
  Cardinality({p \in KcInterior(in) :
    /\ k * k * HmaxSq(in) <= (in.nbins - 1) * (in.nbins - 1) * ModgSq(in, p[1], p[2])
    /\ (in.nbins - 1) * (in.nbins - 1) * ModgSq(in, p[1], p[2]) < (k + 1) * (k + 1) * HmaxSq(in)})

\* The k the percentile loop returns at (lines 325-332), nbins if it returns at none:
\* the first k >= 1 with hist[1] + .. + hist[k - 1] >= nthreshold.
RECURSIVE PercentileBin(_, _, _)
PercentileBin(in, k, nelements) ==
  LET total == Cardinality(KcInterior(in))
      nthreshold == ((total - Hist(in, 0)) * in.perc) \div 1000
  IN IF k >= in.nbins THEN in.nbins
     ELSE IF nelements >= nthreshold THEN k
     ELSE PercentileBin(in, k + 1, nelements + Hist(in, k))

\* The value compute_kcontrast returns, in thousandths: 0.03f on a blank image and
\* when the percentile loop ends, hmax * k / nbins otherwise.  Without the test of
\* line 313 a blank image scales modgs by infinity and indexes hist with (int)NaN.
Kcontrast(in) ==
  IF IsBlank(HmaxSq(in)) THEN [error |-> "none", milli |-> 30]
  ELSE IF HmaxSq(in) = 0 THEN [error |-> "hist index out of range", milli |-> 0]
  ELSE LET k == PercentileBin(in, 1, 0)
       IN IF k >= in.nbins THEN [error |-> "none", milli |-> 30]
          ELSE [error |-> "none",
                milli |-> CHOOSE v \in 0..4000 :
                            /\ v * v * in.nbins * in.nbins <= 1000000 * HmaxSq(in) * k * k
                            /\ 1000000 * HmaxSq(in) * k * k
                                 < (v + 1) * (v + 1) * in.nbins * in.nbins]

KcInit ==
  /\ kcIn \in [rows : 2..(MaxRows + 2), cols : 2..(MaxCols + 2), field : 0..(MaxSeed + 2),
               perc : {700, 1000}, nbins : {3, 4}]
  /\ kcOut = [error |-> "none", milli |-> 0]
  /\ kcPhase = "call"

\* The call of compute_kcontrast (lines 286-335).
KcCompute ==
  /\ kcPhase = "call"
  /\ kcOut' = Kcontrast(kcIn)
  /\ kcPhase' = "returned"
  /\ UNCHANGED kcIn
  /\ UNCHANGED notKc

KcNext == KcCompute

(***************************************************************************)
(* Part 11.  The detector filter of Find_Scale_Space_Extrema on one level  *)
(* (lines 636-657): the loops over the pixels and the test that sets       *)
(* is_extremum.                                                            *)
(***************************************************************************)
\* Ldet at (y, x): a peak at (py, px), a second value on its right neighbour, a third
\* in the top left corner, 0 elsewhere.
LdetValue(in, y, x) ==
  IF y = in.py /\ x = in.px THEN in.peak
  ELSE IF y = in.py /\ x = in.px + 1 THEN in.beside
  ELSE IF y = 0 /\ x = 0 THEN in.corner
  ELSE 0

\* The test of lines 649-657 on the pixel (ix, jx); prev, curr and next are the rows
\* ix - 1, ix and ix + 1.
PassesFilter_Mut(in, ix, jx) ==
  LET value == LdetValue(in, ix, jx)
  IN /\ value > in.dthreshold /\ value >= in.min_dthreshold
     /\ \A dy \in {0 - 1, 0, 1} : \A dx \in {0 - 1, 0, 1} :
          (dy # 0 \/ dx # 0) => value >= LdetValue(in, ix + dy, jx + dx)
PassesFilter(in, ix, jx) ==
  LET value == LdetValue(in, ix, jx)
  IN /\ value > in.dthreshold /\ value >= in.min_dthreshold
     /\ \A dy \in {0 - 1, 0, 1} : \A dx \in {0 - 1, 0, 1} :
          (dy # 0 \/ dx # 0) => value > LdetValue(in, ix + dy, jx + dx)

\* Bound of the model: the rows and the columns of the response map.
MaxDetSide == 4

DetInit ==
  /\ detIn \in [rows : 3..MaxDetSide, cols : 3..MaxDetSide,
                py : 0..(MaxDetSide - 1), px : 0..(MaxDetSide - 1),
                peak : {20, 30}, beside : {0, 20, 30}, corner : {0, 100},
                dthreshold : {10}, min_dthreshold : {5, 25}]
  /\ detIn.py < detIn.rows /\ detIn.px < detIn.cols
  /\ (detIn.py = 0 /\ detIn.px = 0) => detIn.corner = 0
  /\ detAt = <<1, 1>>
  /\ detCands = {}
  /\ detPhase = "scan"

\* One turn of the loop over jx, with the step of the loop over ix at the end of a row
\* (lines 639-657).
DetPixel ==
  /\ detPhase = "scan"
  /\ detAt[1] < detIn.rows - 1
  /\ detCands' = IF PassesFilter(detIn, detAt[1], detAt[2])
                   THEN detCands \cup {detAt} ELSE detCands
  /\ detAt' = IF detAt[2] + 1 < detIn.cols - 1 THEN <<detAt[1], detAt[2] + 1>>
              ELSE <<detAt[1] + 1, 1>>
  /\ UNCHANGED <<detIn, detPhase>>
  /\ UNCHANGED notDet

\* The loop over ix ends (line 639).
DetRowsEnd ==
  /\ detPhase = "scan"
  /\ ~(detAt[1] < detIn.rows - 1)
  /\ detPhase' = "done"
  /\ UNCHANGED <<detIn, detAt, detCands>>
  /\ UNCHANGED notDet

DetNext == DetPixel \/ DetRowsEnd

(***************************************************************************)
(* Part 12.  The level loop of Create_Nonlinear_Scale_Space (lines 414-478) *)
(* after the loop of Allocate_Memory_Evolution that fills tsteps_ (lines    *)
(* 77-87).  An image is the list of the operations that produced it.        *)
(***************************************************************************)
\* evolution_.size() on an image large enough for every octave (lines 53-75).
CssLevels(o) == o.omax * o.nsublevels

\* evolution_[i].octave (line 70).
CssOctave(o, i) == i \div o.nsublevels

\* The level the Lt of level i is taken from (lines 448 and 452).
PrevLevel_Mut(i) == 0
PrevLevel(i) == i - 1

\* The list of level i: tsteps_[i - 1] (line 466), a sequence counting from 1.
StepList(lists, i) == lists[i]

\* An operation on an image.
Op(name, tau) == [op |-> name, tau |-> tau]

\* Lt of level i as lines 446-453 make it from the Lt of the level before.
Transferred(o, lt, i) ==
  lt[PrevLevel(i) + 1]
    \o << IF CssOctave(o, i) > CssOctave(o, i - 1) THEN Op("resize", 0)
          ELSE Op("copyTo", 0) >>

\* Bounds of the model: the octaves and the sublevels.
MaxCssOctaves == 2
MaxCssSublevels == 2

\* The lists fed_tau_by_process_time returns in the model (line 83): the steps are
\* numbered, a list can be out of increasing order (reordering_).
TauLists == {<<7>>, <<3, 1, 2>>}

CssInit ==
  /\ cssOptions \in [omax : 1..MaxCssOctaves, nsublevels : 1..MaxCssSublevels]
  /\ cssTsteps = << >>
  /\ cssLt = [k \in 1..CssLevels(cssOptions) |-> << >>]
  /\ cssI = 1
  /\ cssJ = 0
  /\ cssKcontrast = 0
  /\ cssLflow = 0 - 1
  /\ cssPhase = "allocate"

\* One turn of the loop of lines 78-87: tsteps_.push_back(tau).
CssTimeSteps(tau) ==
  /\ cssPhase = "allocate"
  /\ cssI < CssLevels(cssOptions)
  /\ cssTsteps' = Append(cssTsteps, tau)
  /\ cssI' = cssI + 1
  /\ UNCHANGED <<cssOptions, cssLt, cssJ, cssKcontrast, cssLflow, cssPhase>>
  /\ UNCHANGED notCss

\* The loop of lines 78-87 ends and the constructor returns.
CssAllocated ==
  /\ cssPhase = "allocate"
  /\ ~(cssI < CssLevels(cssOptions))
  /\ cssPhase' = "allocated"
  /\ UNCHANGED <<cssOptions, cssTsteps, cssLt, cssI, cssJ, cssKcontrast, cssLflow>>
  /\ UNCHANGED notCss

\* The first level (lines 419-422) and the return of a pyramid of one level (lines
\* 424-429).
CssFirstLevel ==
  /\ cssPhase = "allocated"
  /\ cssLt' = [cssLt EXCEPT ![1] = << Op("GaussianBlur", 0) >>]
  /\ cssPhase' = IF CssLevels(cssOptions) = 1 THEN "done" ELSE "contrast"
  /\ UNCHANGED <<cssOptions, cssTsteps, cssI, cssJ, cssKcontrast, cssLflow>>
  /\ UNCHANGED notCss

\* The derivatives of the input and compute_kcontrast (lines 432-441); the level loop
\* starts at i = 1 (line 444).
CssContrast ==
  /\ cssPhase = "contrast"
  /\ cssKcontrast' = 0
  /\ cssI' = 1
  /\ cssPhase' = "levels"
  /\ UNCHANGED <<cssOptions, cssTsteps, cssLt, cssJ, cssLflow>>
  /\ UNCHANGED notCss

\* The body of the level loop up to the FED loop (lines 444-466): resize or copy,
\* smoothing, derivatives and conductivity.
CssLevelHead ==
  /\ cssPhase = "levels"
  /\ cssI < CssLevels(cssOptions)
  /\ cssLt' = [cssLt EXCEPT ![cssI + 1] = Transferred(cssOptions, cssLt, cssI)]
  /\ cssKcontrast' = IF CssOctave(cssOptions, cssI) > CssOctave(cssOptions, cssI - 1)
                       THEN cssKcontrast + 1 ELSE cssKcontrast
  /\ cssLflow' = cssI
  /\ cssJ' = 0
  /\ cssPhase' = "steps"
  /\ UNCHANGED <<cssOptions, cssTsteps, cssI>>
  /\ UNCHANGED notCss

\* One turn of the FED loop (lines 467-471): non_linear_diffusion_step and add.
CssStep ==
  /\ cssPhase = "steps"
  /\ cssJ < Len(StepList(cssTsteps, cssI))
  /\ cssLt' = [cssLt EXCEPT ![cssI + 1] =
                 Append(@, Op("step", StepList(cssTsteps, cssI)[cssJ + 1]))]
  /\ cssJ' = cssJ + 1
  /\ UNCHANGED <<cssOptions, cssTsteps, cssI, cssKcontrast, cssLflow, cssPhase>>
  /\ UNCHANGED notCss

\* The FED loop ends and the level loop steps (lines 467 and 444).
CssLevelEnd ==
  /\ cssPhase = "steps"
  /\ ~(cssJ < Len(StepList(cssTsteps, cssI)))
  /\ cssI' = cssI + 1
  /\ cssPhase' = "levels"
  /\ UNCHANGED <<cssOptions, cssTsteps, cssLt, cssJ, cssKcontrast, cssLflow>>
  /\ UNCHANGED notCss

\* The level loop ends (lines 444 and 474-477).
CssReturn ==
  /\ cssPhase = "levels"
  /\ ~(cssI < CssLevels(cssOptions))
  /\ cssPhase' = "done"
  /\ UNCHANGED <<cssOptions, cssTsteps, cssLt, cssI, cssJ, cssKcontrast, cssLflow>>
  /\ UNCHANGED notCss

CssNext ==
  \/ \E tau \in TauLists : CssTimeSteps(tau)
  \/ CssAllocated
  \/ CssFirstLevel
  \/ CssContrast
  \/ CssLevelHead
  \/ CssStep
  \/ CssLevelEnd
  \/ CssReturn

(***************************************************************************)
(* Part 13.  generateDescriptorSubsample (lines 2046-2147), run by two      *)
(* constructions of AKAZEFeatures with the same options while another       *)
(* thread of the process may call rand or srand.  The generator of the C    *)
(* library is process-wide state; its sequence is not part of the           *)
(* repository and is modelled by a fixed function of the seed and of the    *)
(* number of calls made since the seed was set.                             *)
(***************************************************************************)
\* npicks = (int)ceil(nbits / (float)nchannels) (line 2086).
Npicks(in) == (in.nbits + in.nchannels - 1) \div in.nchannels

\* The rows of comps (line 2081).
CompsRows(in) == in.nchannels * Npicks(in)

\* The rows the loops of lines 2069-2077 write for grid i, in the order of c.
GridRows(i, pattern_size) ==
  LET gdiv == i + 2
      gsz == gdiv * gdiv
      psz == (2 * pattern_size + gdiv - 1) \div gdiv
      pairs == {p \in (0..(gsz - 1)) \X (0..(gsz - 1)) : p[1] < p[2]}
      rank(p) == p[1] * gsz - (p[1] * (p[1] + 1)) \div 2 + (p[2] - p[1])
  IN [c \in 1..((gsz * (gsz - 1)) \div 2) |->
        LET p == CHOOSE q \in pairs : rank(q) = c
        IN << i, psz * (p[1] % gdiv) - pattern_size, psz * (p[1] \div gdiv) - pattern_size,
              psz * (p[2] % gdiv) - pattern_size, psz * (p[2] \div gdiv) - pattern_size >>]

\* fullM (lines 2063-2078).
FullM(pattern_size) ==
  GridRows(0, pattern_size) \o GridRows(1, pattern_size) \o GridRows(2, pattern_size)

\* The value rand() returns in the generator state st.
RandValue(st) ==
  (((st.seed % 1000) + 3) * (st.calls + 11) * (st.calls + 7) + 7919 * st.calls) % 32768

\* The generator after one more call of rand().
RandAdvance(st) == [st EXCEPT !.calls = st.calls + 1]

\* k of pick i (lines 2092-2096).
PickIndex(r, nrows, i) == IF i < 6 THEN i ELSE r % (nrows - i)

\* The row copied over the picked one (line 2141): fullcopy.rows - i - 1.
LastRow_Mut(nrows, i) == nrows - 1
LastRow(nrows, i) == nrows - i - 1

\* The index j of the row of samples equal to s, -1 if there is none (lines 2100-2108).
FindSample(samples, s) ==
  LET m == {j \in 1..Len(samples) : samples[j] = s}
  IN IF m = {} THEN 0 - 1 ELSE (CHOOSE j \in m : \A x \in m : j <= x) - 1

\* The nrows the three stores of a pick into column col of comps go to (lines
\* 2103-2105 and 2113-2115): i * nchannels, + 1 and + 2 whatever nchannels is.
StoreRows(i, nchannels) == {i * nchannels, i * nchannels + 1, i * nchannels + 2}

\* comps after comps(row, col) = v for the nrows that exist; a store to another row
\* leaves comps as it is.
StoreComp(comps, row, col, v) ==
  IF row < Len(comps) THEN [comps EXCEPT ![row + 1][col + 1] = v] ELSE comps

\* comps after the three stores of a pick for the sample at index j of samples.
StoreThree(comps, i, nchannels, col, j) ==
  StoreComp(StoreComp(StoreComp(comps, i * nchannels, col, nchannels * j),
                      i * nchannels + 1, col, nchannels * j + 1),
            i * nchannels + 2, col, nchannels * j + 2)

\* The state before the first construction, for descriptor sizes taken from bits and
\* the other thread in the state other.
SubStart(bits, other) ==
  /\ subIn \in [nbits : bits, pattern_size : {10}, nchannels : 1..3]
  /\ subRand \in [seed : {1, 1024}, calls : {0, 5}]
  /\ subOther = other
  /\ subFullM = << >>
  /\ subFullcopy = << >>
  /\ subSamples = << >>
  /\ subComps = << >>
  /\ subI = 0
  /\ subPicked = << >>
  /\ subOutside = {}
  /\ subRun = 1
  /\ subFirst = << >>
  /\ subOut = << >>
  /\ subPhase = "entry"

\* Two constructions beside another thread that has one call of rand or srand to make.
SubInit == SubStart({7, 24}, "idle")

\* Two constructions in a process without another user of the generator, for sizes up
\* to the capacity of each channel count and one above.
SubInitAlone == SubStart({1, 7, 18, 64, 161, 162, 163, 324, 486}, "absent")

\* The function up to the loop over the picks (lines 2049-2089), with the CV_Assert on
\* the capacity ssz of line 2056.
SubEnter ==
  /\ subPhase = "entry"
  /\ IF subIn.nbits <= FullBits(subIn.nchannels)
       THEN /\ subFullM' = FullM(subIn.pattern_size)
            /\ subRand' = [seed |-> 1024, calls |-> 0]
            /\ subComps' = [n \in 1..CompsRows(subIn) |-> <<1000, 1000>>]
            /\ subSamples' = << >>
            /\ subFullcopy' = FullM(subIn.pattern_size)
            /\ subI' = 0
            /\ subPicked' = << >>
            /\ subPhase' = "picks"
       ELSE /\ subPhase' = "failed"
            /\ UNCHANGED <<subFullM, subRand, subComps, subSamples, subFullcopy, subI,
                           subPicked>>
  /\ UNCHANGED <<subIn, subOther, subOutside, subRun, subFirst, subOut>>
  /\ UNCHANGED notSub

\* One pick (lines 2091-2142).  A store outside comps either lands in memory that is
\* none of the tables of the function or ends the process.
SubPick(lands) ==
  /\ subPhase = "picks"
  /\ subI < Npicks(subIn)
  /\ LET nch == subIn.nchannels
         nrows == Len(subFullM)
         k == PickIndex(RandValue(subRand), nrows, subI)
         picked == subFullcopy[k + 1]
         s1 == <<picked[1], picked[2], picked[3]>>
         j1 == FindSample(subSamples, s1)
         samples1 == IF j1 < 0 THEN Append(subSamples, s1) ELSE subSamples
         at1 == IF j1 < 0 THEN Len(subSamples) ELSE j1
         s2 == <<picked[1], picked[4], picked[5]>>
         j2 == FindSample(samples1, s2)
         samples2 == IF j2 < 0 THEN Append(samples1, s2) ELSE samples1
         at2 == IF j2 < 0 THEN Len(samples1) ELSE j2
         outside == {<<row, col>> \in StoreRows(subI, nch) \X {0, 1} :
                       ~(row < Len(subComps))}
     IN /\ subRand' = RandAdvance(subRand)
        /\ subOutside' = subOutside \cup outside
        /\ IF nrows - subI = 0 \/ (outside # {} /\ ~lands)
             THEN /\ subPhase' = "crashed"
                  /\ UNCHANGED <<subSamples, subComps, subFullcopy, subI, subPicked>>
             ELSE /\ subSamples' = samples2
                  /\ subComps' = StoreThree(StoreThree(subComps, subI, nch, 0, at1),
                                            subI, nch, 1, at2)
                  /\ subFullcopy' = [subFullcopy EXCEPT
                                       ![k + 1] = subFullcopy[LastRow(nrows, subI) + 1]]
                  /\ subI' = subI + 1
                  /\ subPicked' = Append(subPicked, picked)
                  /\ subPhase' = subPhase
  /\ UNCHANGED <<subIn, subOther, subFullM, subRun, subFirst, subOut>>
  /\ UNCHANGED notSub

\* The loop ends and the two tables are returned (lines 2145-2146); the second
\* construction starts after the first.
SubReturn ==
  /\ subPhase = "picks"
  /\ ~(subI < Npicks(subIn))
  /\ subOut' = <<subSamples, SubSeq(subComps, 1, subIn.nbits)>>
  /\ IF subRun = 1
       THEN /\ subFirst' = subOut'
            /\ subRun' = 2
            /\ subPhase' = "entry"
       ELSE /\ subPhase' = "done"
            /\ UNCHANGED <<subFirst, subRun>>
  /\ UNCHANGED <<subIn, subRand, subOther, subFullM, subFullcopy, subSamples, subComps,
                 subI, subPicked, subOutside>>
  /\ UNCHANGED notSub

\* The other thread calls rand().
SubOtherRand ==
  /\ subOther = "idle"
  /\ subPhase \in {"entry", "picks"}
  /\ subRand' = RandAdvance(subRand)
  /\ subOther' = "called"
  /\ UNCHANGED <<subIn, subFullM, subFullcopy, subSamples, subComps, subI, subPicked,
                 subOutside, subRun, subFirst, subOut, subPhase>>
  /\ UNCHANGED notSub

\* The other thread calls srand(seed).
SubOtherSrand(seed) ==
  /\ subOther = "idle"
  /\ subPhase \in {"entry", "picks"}
  /\ subRand' = [seed |-> seed, calls |-> 0]
  /\ subOther' = "called"
  /\ UNCHANGED <<subIn, subFullM, subFullcopy, subSamples, subComps, subI, subPicked,
                 subOutside, subRun, subFirst, subOut, subPhase>>
  /\ UNCHANGED notSub

SubNextAlone ==
  \/ SubEnter
  \/ \E lands \in BOOLEAN : SubPick(lands)
  \/ SubReturn

SubNext ==
  \/ SubNextAlone
  \/ SubOtherRand
  \/ SubOtherSrand(1)

(***************************************************************************)
(* Part 14.  Compute_Main_Orientation (lines 1237-1312) after the samples   *)
(* are taken, with quantized_counting_sort (lines 1208-1229).  Responses    *)
(* are small integers, so that every sum is exact.                          *)
(***************************************************************************)
\* slices and win (lines 1256 and 1263).
Slices == 42
Win == 7

\* The responses of the model with the slice (int)(Ang / ang_step) of their angle, the
\* angles lying well inside their slices: 0 for the zero response, 0.785 rad -> 5,
\* 1.571 -> 10, 3.463 -> 23, 5.961 -> 39, 6.184 -> 41.
OriResponses ==
  { [x |-> 0, y |-> 0, key |-> 0], [x |-> 2, y |-> 2, key |-> 5],
    [x |-> 0, y |-> 3, key |-> 10], [x |-> 0 - 3, y |-> 0 - 1, key |-> 23],
    [x |-> 3, y |-> 0 - 1, key |-> 39], [x |-> 10, y |-> 0 - 1, key |-> 41] }

\* cum[k] after the three loops of quantized_counting_sort: the samples whose key is
\* below k (lines 1218-1228).
SliceStarts(res) ==
  [k \in 0..Slices |-> Cardinality({i \in 1..Len(res) : res[i].key < k})]

\* sorted_idx after the third loop (lines 1227-1228): idx[--cum[key]] = i for i rising,
\* so the samples of a key stand in falling order of i.  Indices count from 0.
SortedIdx(res) ==
  [p \in 0..(Len(res) - 1) |->
     CHOOSE i \in 0..(Len(res) - 1) :
       LET key == res[i + 1].key
           later == Cardinality({m \in (i + 1)..(Len(res) - 1) : res[m + 1].key = key})
       IN p = SliceStarts(res)[key] + later]

\* sumX, sumY over sorted_idx[from .. to - 1] (lines 1280-1283).
RECURSIVE SumRange(_, _, _, _)
SumRange(res, idx, from, to) ==
  IF from >= to THEN [x |-> 0, y |-> 0]
  ELSE LET rest == SumRange(res, idx, from + 1, to)
           r == res[idx[from] + 1]
       IN [x |-> r.x + rest.x, y |-> r.y + rest.y]

\* The sums of the window at position sn: slices sn .. sn + win - 1, past slice 41
\* the slices 0 .. remain - 1 (lines 1292-1296 and 1311-1318).
WindowSum(res, slice, idx, sn) ==
  IF sn <= Slices - Win THEN SumRange(res, idx, slice[sn], slice[sn + Win])
  ELSE LET a == SumRange(res, idx, slice[sn], slice[Slices])
           b == SumRange(res, idx, slice[0], slice[sn + Win - Slices])
       IN [x |-> a.x + b.x, y |-> a.y + b.y]

\* The test before 'continue' (lines 1288-1289 and 1306-1307).
WindowUnchanged_Mut(slice, sn) == slice[sn] = slice[sn - 1]
WindowUnchanged(slice, sn) ==
  IF sn <= Slices - Win
    THEN slice[sn] = slice[sn - 1] /\ slice[sn + Win] = slice[sn + Win - 1]
    ELSE LET remain == sn + Win - Slices
         IN slice[sn] = slice[sn - 1] /\ slice[remain] = slice[remain - 1]

\* norm, and maxNorm, maxX, maxY after 'if (norm > maxNorm)' (lines 1298-1300).
NormOf(s) == s.x * s.x + s.y * s.y
Better(best, s) ==
  IF NormOf(s) > best.norm THEN [norm |-> NormOf(s), x |-> s.x, y |-> s.y] ELSE best

\* Bound of the model: ang_size, 109 in the code (line 1247).
MaxAngSize == 3

OriInit ==
  /\ oriRes \in UNION {[1..n -> OriResponses] : n \in 1..MaxAngSize}
  /\ oriSlice = [k \in 0..Slices |-> 0]
  /\ oriSortedIdx = << >>
  /\ oriSn = 0
  /\ oriMax = [norm |-> 0, x |-> 0, y |-> 0]
  /\ oriSummed = {}
  /\ oriPhase = "sampled"

\* quantized_counting_sort (line 1260).
OriSort ==
  /\ oriPhase = "sampled"
  /\ oriSlice' = SliceStarts(oriRes)
  /\ oriSortedIdx' = SortedIdx(oriRes)
  /\ oriPhase' = "sorted"
  /\ UNCHANGED <<oriRes, oriSn, oriMax, oriSummed>>
  /\ UNCHANGED notOri

\* The window at position 0 (lines 1265-1270).
OriFirstWindow ==
  /\ oriPhase = "sorted"
  /\ LET s == SumRange(oriRes, oriSortedIdx, oriSlice[0], oriSlice[Win])
     IN oriMax' = [norm |-> NormOf(s), x |-> s.x, y |-> s.y]
  /\ oriSummed' = {0}
  /\ oriSn' = 1
  /\ oriPhase' = "slide"
  /\ UNCHANGED <<oriRes, oriSlice, oriSortedIdx>>
  /\ UNCHANGED notOri

\* One turn of the loop over sn = 1 .. slices - win (lines 1272-1288), and its end.
OriSlide ==
  /\ oriPhase = "slide"
  /\ IF oriSn <= Slices - Win
       THEN /\ IF WindowUnchanged(oriSlice, oriSn)
                 THEN UNCHANGED <<oriMax, oriSummed>>
                 ELSE /\ oriMax' = Better(oriMax, WindowSum(oriRes, oriSlice,
                                                           oriSortedIdx, oriSn))
                      /\ oriSummed' = oriSummed \cup {oriSn}
            /\ oriSn' = oriSn + 1
            /\ oriPhase' = oriPhase
       ELSE /\ oriSn' = Slices - Win + 1
            /\ oriPhase' = "wrap"
            /\ UNCHANGED <<oriMax, oriSummed>>
  /\ UNCHANGED <<oriRes, oriSlice, oriSortedIdx>>
  /\ UNCHANGED notOri

\* One turn of the loop over sn = slices - win + 1 .. slices - 1 (lines 1290-1308),
\* and its end.
OriWrap ==
  /\ oriPhase = "wrap"
  /\ IF oriSn < Slices
       THEN /\ IF WindowUnchanged(oriSlice, oriSn)
                 THEN UNCHANGED <<oriMax, oriSummed>>
                 ELSE /\ oriMax' = Better(oriMax, WindowSum(oriRes, oriSlice,
                                                           oriSortedIdx, oriSn))
                      /\ oriSummed' = oriSummed \cup {oriSn}
            /\ oriSn' = oriSn + 1
            /\ oriPhase' = oriPhase
       ELSE /\ oriPhase' = "store"
            /\ UNCHANGED <<oriSn, oriMax, oriSummed>>
  /\ UNCHANGED <<oriRes, oriSlice, oriSortedIdx>>
  /\ UNCHANGED notOri

\* kpt.angle = fastAtan2(maxY, maxX) (line 1311).
OriStore ==
  /\ oriPhase = "store"
  /\ oriPhase' = "done"
  /\ UNCHANGED <<oriRes, oriSlice, oriSortedIdx, oriSn, oriMax, oriSummed>>
  /\ UNCHANGED notOri

OriNext == OriSort \/ OriFirstWindow \/ OriSlide \/ OriWrap \/ OriStore

(***************************************************************************)
(* Part 15.  One grid pass of the full binary extractors: the loops over    *)
(* the cells in Get_Upright_MLDB_Full_Descriptor (lines 1655-1690) and in   *)
(* MLDB_Fill_Values (lines 1727-1780), up to the binary comparisons.        *)
(***************************************************************************)
\* The step of the cell loops: sample_step[z] of the upright extractor (lines
\* 1648-1652), ceil(pattern_size * size_mult[lvl]) of the rotated one (line 1836).
CellStep(e, P, z) ==
  IF e = "Get_Upright_MLDB_Full_Descriptor" THEN SampleStep(P, z)
  ELSE IF z = 0 THEN P ELSE IF z = 1 THEN (2 * P + 2) \div 3 ELSE (P + 1) \div 2

\* The rows of values[z] (lines 1630-1634) and the cells of grid z the comparisons
\* read (line 1693, val_count of line 1835).
CellsHeld(z) == (z + 2) * (z + 2)

\* Bounds of the model: descriptor_pattern_size, and the cells after which a pass
\* that has not ended is left alone.
MaxPattern == 10
MaxCells == 40

GrdInit ==
  /\ grdIn \in [e : {"Get_Upright_MLDB_Full_Descriptor", "Get_MLDB_Full_Descriptor"},
                pattern_size : 1..MaxPattern, z : 0..2]
  /\ grdI = 0 - grdIn.pattern_size
  /\ grdJ = 0 - grdIn.pattern_size
  /\ grdCount = 0
  /\ grdSamples = 0
  /\ grdPhase = "cells"

\* One cell: the loops over k and l, the division by nsamples and the store of the
\* cell (lines 1661-1689 and 1732-1778), then the step of the loop over j and, at its
\* end, of the loop over i.
GrdCell ==
  /\ grdPhase = "cells"
  /\ grdI < grdIn.pattern_size
  /\ grdCount < MaxCells
  /\ LET step == CellStep(grdIn.e, grdIn.pattern_size, grdIn.z)
     IN /\ grdSamples' = step * step
        /\ grdCount' = grdCount + 1
        /\ IF grdJ + step < grdIn.pattern_size
             THEN /\ grdJ' = grdJ + step
                  /\ grdI' = grdI
             ELSE /\ grdJ' = 0 - grdIn.pattern_size
                  /\ grdI' = grdI + step
  /\ UNCHANGED <<grdIn, grdPhase>>
  /\ UNCHANGED notGrd

\* The loop over i ends and the comparisons of the grid follow (lines 1692-1693 and
\* 1838).
GrdCompare ==
  /\ grdPhase = "cells"
  /\ ~(grdI < grdIn.pattern_size)
  /\ grdPhase' = "compare"
  /\ UNCHANGED <<grdIn, grdI, grdJ, grdCount, grdSamples>>
  /\ UNCHANGED notGrd

GrdNext == GrdCell \/ GrdCompare

(***************************************************************************)
(* Specifications.                                                         *)
(***************************************************************************)
\* The values the variables of a part hold while another part is checked.
NldIdle ==
  /\ rows = 0 /\ cols = 0 /\ Lt = << >> /\ Lflow = << >> /\ Lstep = << >>
  /\ tsteps = << >> /\ tj = 0 /\ nldPhase = "idle" /\ ranges = << >> /\ lanePos = << >>
  /\ LtAtCall = << >> /\ LstepAtCall = << >> /\ accesses = {}

ExtIdle ==
  /\ descriptor = "MLDB" /\ kpts_aux = << >> /\ kpts = << >> /\ scanAt = << >>
  /\ extPhase = "idle" /\ seen = << >> /\ auxBefore = << >> /\ lastOp = "none"

SupIdle ==
  /\ supOptions = [descriptor |-> "MLDB", descriptor_size |-> 0,
                   descriptor_pattern_size |-> 10]
  /\ supPeak = [class_id |-> 0, jx |-> 0, ix |-> 0]
  /\ supKpt = [x |-> 0, y |-> 0, scale |-> 0, class_id |-> 0]
  /\ supPhase = "idle"
  /\ supGrid = 0
  /\ readBox = << >>
  /\ rawBox = << >>

PipeIdle ==
  /\ pipeOptions = [descriptor |-> "MLDB", descriptor_size |-> 0, descriptor_channels |-> 3,
                    diffusivity |-> "DIFF_PM_G2", omax |-> 0, nsublevels |-> 0]
  /\ pipePc = "idle"
  /\ pipeLog = << >>
  /\ pipeError = "none"
  /\ pipeLevel = 0
  /\ pipeKpts = 0
  /\ pipeDone = 0

RefIdle ==
  /\ refKpts = << >>
  /\ refI = 0
  /\ refDst = ZeroOffset
  /\ refPhase = "idle"
  /\ refInput = << >>
  /\ refTrace = << >>

DscIdle ==
  /\ dscOptions = [descriptor_size |-> 0, descriptor_channels |-> 3]
  /\ dscKey = 0
  /\ dscRow = << << >>, << >> >>
  /\ dscPos = 0
  /\ dscLvl = 0
  /\ dscPhase = "idle"

CmpIdle ==
  /\ cmpOptions = [descriptor |-> "MLDB", descriptor_size |-> 0, descriptor_channels |-> 3]
  /\ cmpKpts = << >>
  /\ cmpRows = 0
  /\ cmpCols = 0
  /\ cmpType = "none"
  /\ cmpData = << >>
  /\ cmpAtCreate = << >>
  /\ cmpRanges = << >>
  /\ cmpPos = << >>
  /\ cmpWrites = {}
  /\ cmpPhase = "start"

AlcIdle ==
  /\ alcOptions = [omax |-> 1, nsublevels |-> 1, img_width |-> 80, img_height |-> 40,
                   soffset |-> 1600]
  /\ alcOmaxAtCall = 1
  /\ alcI = 0
  /\ alcPower = 1
  /\ alcEvolution = << >>
  /\ alcTtime = << >>
  /\ alcCycles = 0
  /\ alcPhase = "octaves"

MsfIdle ==
  /\ msfKpt = [variant |-> "upright", turns |-> 0, scale |-> 1, field |-> 0]
  /\ msfCell = 0
  /\ msfDesc = << >>
  /\ msfLen = 0
  /\ msfOut = << >>
  /\ msfPhase = "cells"

KcIdle ==
  /\ kcIn = [rows |-> 2, cols |-> 2, field |-> 0, perc |-> 700, nbins |-> 3]
  /\ kcOut = [error |-> "none", milli |-> 0]
  /\ kcPhase = "call"

DetIdle ==
  /\ detIn = [rows |-> 3, cols |-> 3, py |-> 1, px |-> 1, peak |-> 20, beside |-> 0,
              corner |-> 0, dthreshold |-> 10, min_dthreshold |-> 5]
  /\ detAt = <<1, 1>>
  /\ detCands = {}
  /\ detPhase = "scan"

CssIdle ==
  /\ cssOptions = [omax |-> 1, nsublevels |-> 1]
  /\ cssTsteps = << >>
  /\ cssLt = << << >> >>
  /\ cssI = 1
  /\ cssJ = 0
  /\ cssKcontrast = 0
  /\ cssLflow = 0 - 1
  /\ cssPhase = "idle"

SubIdle ==
  /\ subIn = [nbits |-> 1, pattern_size |-> 10, nchannels |-> 3]
  /\ subRand = [seed |-> 1, calls |-> 0]
  /\ subOther = "idle"
  /\ subFullM = << >>
  /\ subFullcopy = << >>
  /\ subSamples = << >>
  /\ subComps = << >>
  /\ subI = 0
  /\ subPicked = << >>
  /\ subOutside = {}
  /\ subRun = 1
  /\ subFirst = << >>
  /\ subOut = << >>
  /\ subPhase = "idle"

OriIdle ==
  /\ oriRes = << >>
  /\ oriSlice = << >>
  /\ oriSortedIdx = << >>
  /\ oriSn = 0
  /\ oriMax = [norm |-> 0, x |-> 0, y |-> 0]
  /\ oriSummed = {}
  /\ oriPhase = "idle"

GrdIdle ==
  /\ grdIn = [e |-> "Get_MLDB_Full_Descriptor", pattern_size |-> 10, z |-> 0]
  /\ grdI = 0
  /\ grdJ = 0
  /\ grdCount = 0
  /\ grdSamples = 0
  /\ grdPhase = "idle"

InitDiffusion == NldInit /\ ExtIdle /\ SupIdle /\ PipeIdle /\ RefIdle /\ DscIdle /\ CmpIdle /\ AlcIdle /\ MsfIdle /\ KcIdle /\ DetIdle /\ CssIdle /\ SubIdle /\ OriIdle /\ GrdIdle
SpecDiffusion == InitDiffusion /\ [][NldNext]_vars

InitExtrema == ExtInit /\ NldIdle /\ SupIdle /\ PipeIdle /\ RefIdle /\ DscIdle /\ CmpIdle /\ AlcIdle /\ MsfIdle /\ KcIdle /\ DetIdle /\ CssIdle /\ SubIdle /\ OriIdle /\ GrdIdle
SpecExtrema == InitExtrema /\ [][ExtNext]_vars

InitSupport == SupInit /\ NldIdle /\ ExtIdle /\ PipeIdle /\ RefIdle /\ DscIdle /\ CmpIdle /\ AlcIdle /\ MsfIdle /\ KcIdle /\ DetIdle /\ CssIdle /\ SubIdle /\ OriIdle /\ GrdIdle
SpecSupport == InitSupport /\ [][SupNext]_vars

InitPipeline == PipeInit /\ NldIdle /\ ExtIdle /\ SupIdle /\ RefIdle /\ DscIdle /\ CmpIdle /\ AlcIdle /\ MsfIdle /\ KcIdle /\ DetIdle /\ CssIdle /\ SubIdle /\ OriIdle /\ GrdIdle
SpecPipeline == InitPipeline /\ [][PipeNext]_vars

InitRefine == RefInit /\ NldIdle /\ ExtIdle /\ SupIdle /\ PipeIdle /\ DscIdle /\ CmpIdle /\ AlcIdle /\ MsfIdle /\ KcIdle /\ DetIdle /\ CssIdle /\ SubIdle /\ OriIdle /\ GrdIdle
SpecRefine == InitRefine /\ [][RefNext]_vars
\* The loop is straight-line code of the thread that called detectAndCompute: while a
\* pass or the return is possible, the thread takes it.
InitRefineFair == RefInitOneOctave /\ NldIdle /\ ExtIdle /\ SupIdle /\ PipeIdle /\ DscIdle /\ CmpIdle /\ AlcIdle /\ MsfIdle /\ KcIdle /\ DetIdle /\ CssIdle /\ SubIdle /\ OriIdle /\ GrdIdle
SpecRefineFair == InitRefineFair /\ [][RefNext]_vars /\ WF_vars(RefNext)

InitDescriptor == DscInit /\ NldIdle /\ ExtIdle /\ SupIdle /\ PipeIdle /\ RefIdle /\ CmpIdle /\ AlcIdle /\ MsfIdle /\ KcIdle /\ DetIdle /\ CssIdle /\ SubIdle /\ OriIdle /\ GrdIdle
SpecDescriptor == InitDescriptor /\ [][DscNext]_vars

InitCompute == CmpInit /\ NldIdle /\ ExtIdle /\ SupIdle /\ PipeIdle /\ RefIdle /\ DscIdle /\ AlcIdle /\ MsfIdle /\ KcIdle /\ DetIdle /\ CssIdle /\ SubIdle /\ OriIdle /\ GrdIdle
SpecCompute == InitCompute /\ [][CmpNext]_vars

InitAllocate == AlcInit /\ NldIdle /\ ExtIdle /\ SupIdle /\ PipeIdle /\ RefIdle /\ DscIdle /\ CmpIdle /\ MsfIdle /\ KcIdle /\ DetIdle /\ CssIdle /\ SubIdle /\ OriIdle /\ GrdIdle
SpecAllocate == InitAllocate /\ [][AlcNext]_vars

InitMsurf == MsurfInit /\ NldIdle /\ ExtIdle /\ SupIdle /\ PipeIdle /\ RefIdle /\ DscIdle /\ CmpIdle /\ AlcIdle /\ KcIdle /\ DetIdle /\ CssIdle /\ SubIdle /\ OriIdle /\ GrdIdle
SpecMsurf == InitMsurf /\ [][MsurfNext]_vars

InitKcontrast == KcInit /\ NldIdle /\ ExtIdle /\ SupIdle /\ PipeIdle /\ RefIdle /\ DscIdle /\ CmpIdle /\ AlcIdle /\ MsfIdle /\ DetIdle /\ CssIdle /\ SubIdle /\ OriIdle /\ GrdIdle
SpecKcontrast == InitKcontrast /\ [][KcNext]_vars

InitDetect == DetInit /\ NldIdle /\ ExtIdle /\ SupIdle /\ PipeIdle /\ RefIdle /\ DscIdle /\ CmpIdle /\ AlcIdle /\ MsfIdle /\ KcIdle /\ CssIdle /\ SubIdle /\ OriIdle /\ GrdIdle
SpecDetect == InitDetect /\ [][DetNext]_vars

InitSubsample == SubInit /\ NldIdle /\ ExtIdle /\ SupIdle /\ PipeIdle /\ RefIdle /\ DscIdle /\ CmpIdle /\ AlcIdle /\ MsfIdle /\ KcIdle /\ DetIdle /\ CssIdle /\ OriIdle /\ GrdIdle
SpecSubsample == InitSubsample /\ [][SubNext]_vars

InitOrientation == OriInit /\ NldIdle /\ ExtIdle /\ SupIdle /\ PipeIdle /\ RefIdle /\ DscIdle /\ CmpIdle /\ AlcIdle /\ MsfIdle /\ KcIdle /\ DetIdle /\ CssIdle /\ SubIdle /\ GrdIdle
SpecOrientation == InitOrientation /\ [][OriNext]_vars

InitGrid == GrdInit /\ NldIdle /\ ExtIdle /\ SupIdle /\ PipeIdle /\ RefIdle /\ DscIdle /\ CmpIdle /\ AlcIdle /\ MsfIdle /\ KcIdle /\ DetIdle /\ CssIdle /\ SubIdle /\ OriIdle
SpecGrid == InitGrid /\ [][GrdNext]_vars

InitSubsampleAlone == SubInitAlone /\ NldIdle /\ ExtIdle /\ SupIdle /\ PipeIdle /\ RefIdle /\ DscIdle /\ CmpIdle /\ AlcIdle /\ MsfIdle /\ KcIdle /\ DetIdle /\ CssIdle /\ OriIdle /\ GrdIdle
SpecSubsampleAlone == InitSubsampleAlone /\ [][SubNextAlone]_vars

InitScaleSpace == CssInit /\ NldIdle /\ ExtIdle /\ SupIdle /\ PipeIdle /\ RefIdle /\ DscIdle /\ CmpIdle /\ AlcIdle /\ MsfIdle /\ KcIdle /\ DetIdle /\ SubIdle /\ OriIdle /\ GrdIdle
SpecScaleSpace == InitScaleSpace /\ [][CssNext]_vars

(***************************************************************************)
(* Claims on the diffusion step.                                           *)
(***************************************************************************)
\* The buffer one lane over [row_begin, row_end) leaves, run alone on buffer buf.
RECURSIVE RunOps(_, _, _, _, _)
RunOps(buf, lt, lf, step_size, ops) ==
  IF ops = << >> THEN buf
  ELSE RunOps(StoreRow(buf, Head(ops).row, RowValue(lt, lf, step_size, Head(ops))),
              lt, lf, step_size, Tail(ops))

\* The output of the step when a single thread runs the whole range [0, rows).
OneThreadOutput == RunOps(LstepAtCall, LtAtCall, Lflow, StepSize, LaneOps(0, rows))

WritesOf(r) == {a \in accesses : a.op = "write" /\ a.row = r}

\* C1: when the workers of a diffusion step have all returned, the output buffer
\* equals the output of the one-thread run on the same Lt, Lf and step size, whatever
\* partition of [0, rows) and interleaving was used; every row of the output was
\* written exactly once, by the worker whose range holds the row, and no write fell
\* outside the rows of the buffer.
C1_PartitionIndependent ==
  nldPhase = "joined" =>
    /\ Lstep = OneThreadOutput
    /\ \A r \in 0..(rows - 1) :
         /\ Cardinality(WritesOf(r)) = 1
         /\ \A a \in WritesOf(r) : ranges[a.w][1] <= r /\ r < ranges[a.w][2]
    /\ \A a \in accesses : a.op = "write" => a.row \in 0..(rows - 1)

\* A step run by as many workers as it has rows, on an image of at least three rows.
C1_Witness == nldPhase = "joined" /\ rows >= 3 /\ Len(ranges) = rows /\ tj = 1

\* C2: during a diffusion step the workers read only Lt and Lf, and of them only the
\* rows r-1, r, r+1 of the row r they compute; they write only Lstep; no buffer is
\* both read and written; and Lt keeps the value it had when the step was entered
\* until every range has completed and add() runs.
C2_NoReadWriteHazard ==
  /\ \A a \in accesses :
       /\ a.op = "read" => a.buf \in {"Lt", "Lf"} /\ a.row \in {a.at - 1, a.at, a.at + 1}
       /\ a.op = "write" => a.buf = "Lstep"
  /\ {a.buf : a \in {x \in accesses : x.op = "read"}}
       \cap {a.buf : a \in {x \in accesses : x.op = "write"}} = {}
  /\ nldPhase \in {"running", "joined"} => Lt = LtAtCall
  /\ Lt # LtAtCall => AllLanesDone

\* Two workers are inside the step, one has written a row, the other has rows left.
C2_Witness ==
  /\ nldPhase = "running"
  /\ Len(ranges) >= 2
  /\ \E a \in accesses : a.op = "write"
  /\ ~AllLanesDone

\* C15: when a diffusion step has run on an image of at least 2 x 2 pixels, the four
\* corners of Lstep hold exactly 0, whatever Lt, Lf and the storage of Lstep held and
\* however the rows were split into ranges: the corners are always written.
C15_CornersZero ==
  nldPhase \in {"joined", "finished"} =>
    /\ Lstep[0][0] = 0
    /\ Lstep[0][cols - 1] = 0
    /\ Lstep[rows - 1][0] = 0
    /\ Lstep[rows - 1][cols - 1] = 0

\* The first step on a 2 x 2 image, one range per row, over storage that held no zero.
C15_Witness ==
  /\ nldPhase = "joined"
  /\ tj = 0
  /\ rows = 2
  /\ cols = 2
  /\ Len(ranges) = 2
  /\ LstepAtCall[0][0] # 0
  /\ LstepAtCall[1][1] # 0
  /\ Lstep[1][1] = 0

(***************************************************************************)
(* Claims on Find_Scale_Space_Extrema.                                     *)
(***************************************************************************)
\* The keypoint a peak of the response maps is stored as, and its bounds check.
PeakPoint(s) == StoredPoint(s.class_id, s.jx, s.ix, s.response)
PeakOut(s) == IsOut(descriptor, s.class_id, s.jx, s.ix)

\* Peak b lies one level above peak a, on the pixel that covers a's pixel.
SameLocation(a, b) ==
  LET ra == fastpow(2, Evolution(a.class_id).octave)
      rb == fastpow(2, Evolution(b.class_id).octave)
  IN /\ a.class_id + 1 = b.class_id
     /\ (a.jx * ra) \div rb = b.jx
     /\ (a.ix * ra) \div rb = b.ix

\* The distance test of the first loop, peak c being the new point and peak a the
\* accepted one, whatever their levels.
MeasuredWithin(c, a) ==
  LET ratio == fastpow(2, Evolution(c.class_id).octave)
  IN Within(2 * c.jx * ratio - PeakPoint(a).x2, 2 * c.ix * ratio - PeakPoint(a).y2,
            Evolution(c.class_id).size_sq_x100)

\* Two peaks overlap: one lies within the characteristic size of the other.
Overlaps(c, a) ==
  \/ MeasuredWithin(c, a)
  \/ MeasuredWithin(a, c)
  \/ Within(PeakPoint(c).x2 - PeakPoint(a).x2, PeakPoint(c).y2 - PeakPoint(a).y2,
            Max(PeakPoint(c).size_sq_x100, PeakPoint(a).size_sq_x100))

\* The peaks i and j of the response maps lie at the same location on adjacent levels,
\* and no other peak overlaps either of them.
TwoPeaksSameLocation(i, j) ==
  /\ i < j
  /\ SameLocation(seen[i], seen[j])
  /\ \A k \in DOMAIN seen \ {i, j} :
       ~Overlaps(seen[k], seen[i]) /\ ~Overlaps(seen[k], seen[j])

\* The keypoints returned for the two peaks.
KeptOf(i, j) ==
  SelectSeq(kpts, LAMBDA k : k = PeakPoint(seen[i]) \/ k = PeakPoint(seen[j]))

Higher(a, b) == IF b.response > a.response THEN b ELSE a

\* C3 as stated: two peaks at the same location on adjacent levels yield exactly one
\* keypoint, the one of the higher response.
C3_AsStated ==
  extPhase = "done" =>
    \A i \in DOMAIN seen : \A j \in DOMAIN seen :
      TwoPeaksSameLocation(i, j) =>
        /\ Len(KeptOf(i, j)) = 1
        /\ KeptOf(i, j)[1].response >= seen[i].response
        /\ KeptOf(i, j)[1].response >= seen[j].response

\* C3, amended: of two peaks at the same location on adjacent levels that no other peak
\* overlaps, those that pass the bounds check of the descriptor support yield exactly
\* one keypoint, the one of the higher response (the finer one when the responses are
\* equal); a peak that fails the bounds check is never returned, so that no keypoint is
\* returned when both fail it.
C3_OneKeypointOfThoseInBounds ==
  extPhase = "done" =>
    \A i \in DOMAIN seen : \A j \in DOMAIN seen :
      TwoPeaksSameLocation(i, j) =>
        LET a == seen[i]
            b == seen[j]
        IN /\ (~PeakOut(a) /\ ~PeakOut(b)) => KeptOf(i, j) = << PeakPoint(Higher(a, b)) >>
           /\ (~PeakOut(a) /\ PeakOut(b)) => KeptOf(i, j) = << PeakPoint(a) >>
           /\ (PeakOut(a) /\ ~PeakOut(b)) => KeptOf(i, j) = << PeakPoint(b) >>
           /\ (PeakOut(a) /\ PeakOut(b)) => KeptOf(i, j) = << >>

C3_Witness ==
  /\ extPhase = "done"
  /\ Len(seen) = 3
  /\ TwoPeaksSameLocation(2, 3)
  /\ ~PeakOut(seen[2]) /\ ~PeakOut(seen[3])
  /\ Evolution(seen[2].class_id).octave < Evolution(seen[3].class_id).octave
  /\ seen[3].response > seen[2].response
  /\ lastOp = "replace"
  /\ KeptOf(2, 3) = << PeakPoint(seen[3]) >>
  /\ Len(kpts) = 2

\* C4 as stated: no two returned keypoints of the same level or of adjacent levels lie
\* within the characteristic size of the coarser of the two.
C4_AsStated ==
  extPhase = "done" =>
    \A i \in 1..Len(kpts) : \A j \in 1..Len(kpts) :
      (i # j /\ kpts[i].class_id <= kpts[j].class_id
             /\ kpts[j].class_id <= kpts[i].class_id + 1)
        => ~Within(kpts[i].x2 - kpts[j].x2, kpts[i].y2 - kpts[j].y2,
                   kpts[j].size_sq_x100)

(***************************************************************************)
(* Claims on the support window.                                           *)
(***************************************************************************)
\* C5: every keypoint that leaves the detector has all the samples of its descriptor
\* inside the buffers of its level, for every variant and descriptor_pattern_size.
C5_SamplesInsideLevel ==
  readBox # << >> =>
    /\ 0 <= readBox.ymin /\ readBox.ymax < Evolution(supKpt.class_id).rows
    /\ 0 <= readBox.xmin /\ readBox.xmax < Evolution(supKpt.class_id).cols

\* C21: each of the six extractors reads the level buffers at the sample coordinates
\* clamped to [0, rows - 1] x [0, cols - 1]: the rows and columns read are the computed
\* y1, y2, x1, x2 brought into that range.
C21_ReadsAreClamped ==
  readBox # << >> =>
    LET lv == Evolution(supKpt.class_id)
    IN /\ readBox.ymin = Clip(rawBox.ymin, lv.rows)
       /\ readBox.ymax = Clip(rawBox.ymax, lv.rows)
       /\ readBox.xmin = Clip(rawBox.xmin, lv.cols)
       /\ readBox.xmax = Clip(rawBox.xmax, lv.cols)

(***************************************************************************)
(* Claims on the configuration errors.                                     *)
(***************************************************************************)
\* The steps that work on the pyramid.
PyramidWork ==
  {"GaussianBlur", "Scharr", "compute_kcontrast", "compute_diffusivity",
   "non_linear_diffusion_step", "Compute_Determinant_Hessian_Response"}

NoPyramidWork == \A n \in 1..Len(pipeLog) : pipeLog[n] \notin PyramidWork

\* C6: an unsupported diffusivity selector is reported before any pyramid work: no
\* step of the pyramid is ever done under it, and the pyramid is never completed.
C6_DiffusivityCheckedFirst ==
  ~SupportedDiffusivity(pipeOptions.diffusivity) =>
    NoPyramidWork /\ pipePc \notin {"pyramid", "detected", "describing", "described"}

\* C7: a channel count outside {1, 2, 3} is reported before any pyramid work, for every
\* descriptor variant: no step of the pyramid is ever done under it and no descriptor
\* is ever extracted.
C7_ChannelsCheckedFirst ==
  pipeOptions.descriptor_channels \notin {1, 2, 3} =>
    NoPyramidWork /\ pipePc \notin {"pyramid", "detected", "describing", "described"}

\* C8: for a binary variant, a descriptor_size greater than 162 * descriptor_channels is
\* a fatal error of the constructor, raised before Allocate_Memory_Evolution and before
\* any pyramid work.
C8_OversizeFailsInConstructor ==
  (/\ IsBinary(pipeOptions.descriptor)
   /\ pipeOptions.descriptor_size > 162 * pipeOptions.descriptor_channels
   /\ pipePc # "new")
    => /\ pipePc = "failed"
       /\ pipeError = "nbits <= ssz"
       /\ pipeLog = << >>

C8_Witness ==
  /\ pipeOptions.descriptor = "MLDB_UPRIGHT"
  /\ pipeOptions.descriptor_channels = 3
  /\ pipeOptions.descriptor_size > 162 * pipeOptions.descriptor_channels
  /\ pipePc = "failed"
  /\ pipeError = "nbits <= ssz"

(***************************************************************************)
(* Claims on Do_Subpixel_Refinement.                                       *)
(***************************************************************************)
\* The candidate of the input list with this id is in the list.
InList(n) == \E m \in 1..Len(refKpts) : refKpts[m].id = n

\* Both components of the Newton offset of the neighbourhood have magnitude <= 1.
OffsetWithinOne(p) == Abs(Num0(p)) <= Abs(Det16(p)) /\ Abs(Num1(p)) <= Abs(Det16(p))

\* C9: when Do_Subpixel_Refinement has returned, a candidate (whose 2 x 2 system has a
\* solution, its Newton offset) is in the list if and only if both components of that
\* offset have magnitude <= 1; a rejection removes that candidate only, and the loop
\* runs to its end over the whole list.
C9_KeptIffOffsetWithinOne ==
  refPhase = "done" =>
    /\ \A n \in DOMAIN refInput :
         Det16(refInput[n].patch) # 0 =>
           (InList(n) <=> OffsetWithinOne(refInput[n].patch))
    /\ \A n \in DOMAIN refInput :
         InList(n) \/ (\E t \in DOMAIN refTrace : refTrace[t] = [id |-> n, kept |-> FALSE])
    /\ \A m \in DOMAIN refKpts : refKpts[m].refined

C9_Witness ==
  /\ refPhase = "done"
  /\ Len(refInput) = 3
  /\ \A n \in DOMAIN refInput : Det16(refInput[n].patch) # 0
  /\ ~OffsetWithinOne(refInput[1].patch)
  /\ ~OffsetWithinOne(refInput[2].patch)
  /\ OffsetWithinOne(refInput[3].patch)
  /\ Abs(Num0(refInput[2].patch)) > Abs(Det16(refInput[2].patch))
  /\ Abs(Num1(refInput[2].patch)) <= Abs(Det16(refInput[2].patch))
  /\ Len(refKpts) = 1 /\ refKpts[1].id = 3

\* The ids of the keypoints of the list, in list order.
IdsOf(list) == [m \in DOMAIN list |-> list[m].id]

\* C29: the loop examines the candidates of the input list in their order, each one
\* once, also after the erasure of the first element: no candidate is skipped, none is
\* refined twice (its size is doubled once), the survivors keep their relative order,
\* and the loop ends.
C29_EachCandidateOnce ==
  /\ [](/\ \A t \in DOMAIN refTrace : refTrace[t].id = t
        /\ Len(refTrace) <= Len(refInput)
        /\ Len(refKpts) - refI = Len(refInput) - Len(refTrace)
        /\ \A m \in DOMAIN refKpts :
             /\ refKpts[m].size = (IF refKpts[m].refined THEN 2 ELSE 1)
             /\ refKpts[m].refined <=> m <= refI
        /\ \A m \in 1..(Len(refKpts) - 1) : refKpts[m].id < refKpts[m + 1].id
        /\ refPhase = "done" => Len(refTrace) = Len(refInput))
  /\ <>(refPhase = "done")

C29_Witness ==
  /\ refPhase = "done"
  /\ Len(refInput) = 3
  /\ refTrace = << [id |-> 1, kept |-> FALSE], [id |-> 2, kept |-> TRUE],
                   [id |-> 3, kept |-> FALSE] >>
  /\ IdsOf(refKpts) = <<2>>
  /\ refKpts[1].size = 2

\* C30: two candidates of a list with the same level and the same 3 x 3 neighbourhood
\* get the same verdict and, when kept, the same refined offset, wherever they stand in
\* the list, also when their 2 x 2 system is singular.
C30_OwnNeighbourhoodOnly ==
  \A s, t \in DOMAIN refTrace :
    LET a == refTrace[s].id
        b == refTrace[t].id
    IN (refInput[a].patch = refInput[b].patch /\ refInput[a].octave = refInput[b].octave) =>
         /\ refTrace[s].kept = refTrace[t].kept
         /\ \A m, n \in DOMAIN refKpts :
              (refKpts[m].id = a /\ refKpts[n].id = b) =>
                refKpts[m].offset = refKpts[n].offset

(***************************************************************************)
(* Claims on the descriptor rows.                                          *)
(***************************************************************************)
\* C10: every byte of a descriptor row, the padding bits of its last byte included, is
\* a function of the keypoint and the pyramid: two runs on the same keypoint and
\* pyramid end with the same row, whatever the matrix held before.
C10_RowsReproducible ==
  dscPhase = "done" => dscRow[1] = dscRow[2]

(***************************************************************************)
(* Claims on the parallel computation of the descriptors.                  *)
(***************************************************************************)
\* The matrix a single range over all keypoints leaves: the extractions in index order.
RECURSIVE InOrder(_, _)
InOrder(data, i) ==
  IF i >= Len(cmpKpts) THEN data
  ELSE InOrder(ExtractInto(data, cmpCols, cmpOptions, cmpKpts, i), i + 1)

\* C11: the matrix has one row per keypoint, the extraction of keypoint i stores into
\* row i only, and when parallel_for_ returns the matrix is the one a single range
\* leaves, for every partition of the keypoints and every interleaving.
C11_OwnRowAndOrderFree ==
  cmpPhase = "done" =>
    /\ cmpRows = Len(cmpKpts)
    /\ \A wr \in cmpWrites : wr[2] = wr[1]
    /\ cmpData = InOrder(cmpAtCreate, 0)

\* C28: an extraction of a full-length binary extractor stores exactly 162 bits per
\* channel, and every byte it stores is in the row of its keypoint, for 1, 2 and 3
\* channels, upright and rotation-invariant.
C28_FullLengthBitsFitRow ==
  (IsBinary(cmpOptions.descriptor) /\ cmpOptions.descriptor_size = 0 /\ cmpWrites # {}) =>
    /\ BitsStored(cmpOptions) = 162 * cmpOptions.descriptor_channels
    /\ CeilDiv8(BitsStored(cmpOptions)) <= cmpCols
    /\ \A wr \in cmpWrites : wr[2] = wr[1]

\* C17: once created, the descriptor matrix has one row per keypoint; a row is 64
\* floats in the float variants, the least number of bytes that holds 162 bits per
\* channel in the full binary variants, and the least number of bytes that holds
\* descriptor_size bits in the subset variants (32 bytes for 256 bits).
C17_MatrixShape ==
  cmpPhase # "start" =>
    /\ cmpRows = Len(cmpKpts)
    /\ Len(cmpData) = cmpRows * cmpCols
    /\ ~IsBinary(cmpOptions.descriptor) => cmpCols = 64 /\ cmpType = "CV_32FC1"
    /\ IsBinary(cmpOptions.descriptor) =>
         LET bits == IF cmpOptions.descriptor_size = 0
                       THEN 162 * cmpOptions.descriptor_channels
                       ELSE cmpOptions.descriptor_size
         IN /\ cmpType = "CV_8UC1"
            /\ 8 * cmpCols >= bits
            /\ 8 * (cmpCols - 1) < bits
            /\ bits = 256 => cmpCols = 32

C17_Witness ==
  /\ cmpPhase = "done"
  /\ cmpOptions.descriptor = "MLDB"
  /\ cmpOptions.descriptor_size = 256
  /\ cmpOptions.descriptor_channels = 3
  /\ cmpRows = 2
  /\ cmpCols = 32
  /\ Len(cmpData) = 64

(***************************************************************************)
(* Claims on the levels of the pyramid.                                    *)
(***************************************************************************)
\* The first octave from 1 on whose halved image is narrower than 80 or lower than 40,
\* omax if there is none.
OctavesKept(o, omax) ==
  LET small == {i \in 1..(omax - 1) :
                  o.img_width \div fastpow(2, i) < 80 \/ o.img_height \div fastpow(2, i) < 40}
  IN IF small = {} THEN omax ELSE CHOOSE i \in small : \A k \in small : i <= k

\* C12: the level list is built octave by octave and stops at the first octave i >= 1
\* whose halved width is below 80 or halved height below 40; options_.omax becomes i;
\* octave 0 is kept whatever the image size; the pyramid has nsublevels levels per
\* octave kept.
C12_OctavesClamped ==
  alcPhase # "octaves" =>
    /\ alcOptions.omax = OctavesKept(alcOptions, alcOmaxAtCall)
    /\ alcOptions.omax >= 1
    /\ Len(alcEvolution) = alcOptions.nsublevels * alcOptions.omax
    /\ \A k \in 1..Len(alcEvolution) :
         /\ alcEvolution[k].octave = (k - 1) \div alcOptions.nsublevels
         /\ alcEvolution[k].sublevel = (k - 1) % alcOptions.nsublevels

\* An image below 80 x 40 with more than one octave asked for ends with one octave.
C12_Witness ==
  /\ alcPhase = "done"
  /\ alcOptions.img_width = 79
  /\ alcOptions.img_height = 39
  /\ alcOmaxAtCall = 3
  /\ alcOptions.omax = 1
  /\ Len(alcEvolution) = alcOptions.nsublevels
  /\ alcOptions.nsublevels = 2

\* C13: the levels of octave o are floor(img_width / 2^o) wide and
\* floor(img_height / 2^o) high, so along the level sequence the dimensions never
\* grow and are equal within an octave.
C13_LevelDimensions ==
  /\ \A k \in 1..Len(alcEvolution) :
       /\ alcEvolution[k].width * fastpow(2, alcEvolution[k].octave) <= alcOptions.img_width
       /\ (alcEvolution[k].width + 1) * fastpow(2, alcEvolution[k].octave)
            > alcOptions.img_width
       /\ alcEvolution[k].height * fastpow(2, alcEvolution[k].octave)
            <= alcOptions.img_height
       /\ (alcEvolution[k].height + 1) * fastpow(2, alcEvolution[k].octave)
            > alcOptions.img_height
  /\ \A k \in 2..Len(alcEvolution) :
       /\ alcEvolution[k].width <= alcEvolution[k - 1].width
       /\ alcEvolution[k].height <= alcEvolution[k - 1].height
       /\ alcEvolution[k].octave = alcEvolution[k - 1].octave =>
            /\ alcEvolution[k].width = alcEvolution[k - 1].width
            /\ alcEvolution[k].height = alcEvolution[k - 1].height

\* A pyramid of three octaves on an image of odd size: 161 x 81, 80 x 40.
C13_Witness ==
  /\ alcPhase = "done"
  /\ alcOptions.img_width = 161
  /\ alcOptions.img_height = 81
  /\ alcOptions.nsublevels = 2
  /\ Len(alcEvolution) = 4
  /\ alcEvolution[2].width = 161
  /\ alcEvolution[3].width = 80
  /\ alcEvolution[3].height = 40

\* C14: etime grows strictly along the level sequence, so every process time
\* evolution_[i].etime - evolution_[i - 1].etime the FED schedules are built for is
\* strictly positive.
C14_TimesIncrease ==
  /\ \A k \in 2..Len(alcEvolution) : alcEvolution[k].etime > alcEvolution[k - 1].etime
  /\ Len(alcTtime) <= Max(Len(alcEvolution) - 1, 0)
  /\ \A k \in 1..Len(alcTtime) :
       /\ alcTtime[k] = alcEvolution[k + 1].etime - alcEvolution[k].etime
       /\ alcTtime[k] > 0
  /\ alcPhase = "done" => Len(alcTtime) = Max(Len(alcEvolution) - 1, 0)

\* A pyramid of two octaves of three sublevels with its five process times.
C14_Witness ==
  /\ alcPhase = "done"
  /\ alcOptions.nsublevels = 3
  /\ alcOptions.omax = 2
  /\ Len(alcTtime) = 5
  /\ alcEvolution[4].octave = 1
  /\ alcTtime[3] > 0

(***************************************************************************)
(* Claims on the MSURF descriptors.                                        *)
(***************************************************************************)
\* The sum of the squares of the numerators of out[lo .. hi].
RECURSIVE SumSq(_, _, _)
SumSq(out, lo, hi) ==
  IF lo = hi THEN out[lo].num * out[lo].num
  ELSE SumSq(out, lo, (lo + hi) \div 2) + SumSq(out, (lo + hi) \div 2 + 1, hi)

\* C16: the 64 values an MSURF extractor leaves, upright or rotated, are numbers whose
\* squares sum to 1: with the values num / sqrt(lensq), the squares of the num sum to
\* lensq, which is positive.
C16_UnitNorm ==
  msfPhase = "done" =>
    /\ \A e \in 1..64 : ~msfOut[e].nan
    /\ SumSq(msfOut, 1, 64) = msfLen
    /\ msfLen > 0

AcceptedNear(lv) ==
  LET c == seen[Len(seen)]
      ratio == fastpow(2, Evolution(c.class_id).octave)
  IN {k \in 1..Len(auxBefore) :
        /\ auxBefore[k].class_id = c.class_id + lv
        /\ Within(2 * c.jx * ratio - auxBefore[k].x2, 2 * c.ix * ratio - auxBefore[k].y2,
                  Evolution(c.class_id).size_sq_x100)}

\* The candidates the final filter keeps when it compares each one with the later ones
\* lv levels above it.
RECURSIVE Survivors(_, _, _)
Survivors(aux, i, lv) ==
  IF i > Len(aux) THEN << >>
  ELSE (IF \E j \in (i + 1)..Len(aux) :
             /\ aux[j].class_id = aux[i].class_id + lv
             /\ Within(aux[i].x2 - aux[j].x2, aux[i].y2 - aux[j].y2, aux[i].size_sq_x100)
             /\ aux[j].response > aux[i].response
          THEN << >> ELSE << aux[i] >>) \o Survivors(aux, i + 1, lv)

StrictPeak(p) ==
  /\ p[1] \in 1..(detIn.rows - 2)
  /\ p[2] \in 1..(detIn.cols - 2)
  /\ \A q \in ((p[1] - 1)..(p[1] + 1)) \X ((p[2] - 1)..(p[2] + 1)) :
       q # p => LdetValue(detIn, p[1], p[2]) > LdetValue(detIn, q[1], q[2])

\* The largest response of the map.
GlobalMax == Max(Max(detIn.peak, detIn.beside), detIn.corner)

\* C20 as stated, min_dthreshold (in tenths, below 1) read as the fraction of the global
\* maximum response a candidate must exceed: a candidate is an interior pixel above dthreshold, above
\* min_dthreshold times the global maximum, and strictly above its 8 neighbours.
C20_AsStated ==
  detIn.min_dthreshold < 10 =>
    \A p \in detCands :
      /\ StrictPeak(p)
      /\ LdetValue(detIn, p[1], p[2]) > detIn.dthreshold
      /\ 10 * LdetValue(detIn, p[1], p[2]) > detIn.min_dthreshold * GlobalMax

\* C20, amended: a pixel the scan has passed is a candidate exactly if it is an interior
\* pixel, its response is above dthreshold and not below min_dthreshold, both fixed
\* values that do not depend on the responses of the map, and strictly above its 8
\* neighbours; a plateau yields no candidate.
C20_AbsoluteThresholds ==
  /\ detIn.peak = detIn.beside =>
       /\ <<detIn.py, detIn.px>> \notin detCands
       /\ <<detIn.py, detIn.px + 1>> \notin detCands
  /\ \A p \in (0..(detIn.rows - 1)) \X (0..(detIn.cols - 1)) :
       /\ p \in detCands =>
            /\ StrictPeak(p)
            /\ LdetValue(detIn, p[1], p[2]) > detIn.dthreshold
            /\ LdetValue(detIn, p[1], p[2]) >= detIn.min_dthreshold
       /\ (/\ detPhase = "done"
           /\ StrictPeak(p)
           /\ LdetValue(detIn, p[1], p[2]) > detIn.dthreshold
           /\ LdetValue(detIn, p[1], p[2]) >= detIn.min_dthreshold) => p \in detCands

\* A peak of 3.0 in the interior of a 4 x 4 map is the one candidate although the map
\* holds a response of 10.0 in its corner.
C20_Witness ==
  /\ detPhase = "done"
  /\ detIn.rows = 4 /\ detIn.cols = 4
  /\ detIn.peak = 30 /\ detIn.corner = 100 /\ detIn.beside = 20
  /\ detIn.py = 2 /\ detIn.px = 1
  /\ detCands = {<<2, 1>>}

(***************************************************************************)
(* Claims on the level loop of Create_Nonlinear_Scale_Space.               *)
(***************************************************************************)
\* The operations the claim gives Lt of level i: the smoothed input for level 0; for a
\* level i >= 1 the finished Lt of level i - 1, downsampled when the octave changes and
\* copied otherwise, then one diffusion step per entry of its list, in list order.
RECURSIVE ExpectedLt(_)
ExpectedLt(i) ==
  IF i = 0 THEN << Op("GaussianBlur", 0) >>
  ELSE ExpectedLt(i - 1)
         \o << IF CssOctave(cssOptions, i) > CssOctave(cssOptions, i - 1)
                 THEN Op("resize", 0) ELSE Op("copyTo", 0) >>
         \o [n \in 1..Len(cssTsteps[i]) |-> Op("step", cssTsteps[i][n])]

IsPrefix(a, b) == Len(a) <= Len(b) /\ a = SubSeq(b, 1, Len(a))

\* C22: level 0 is the smoothed input and is never diffused; the levels are built in
\* order, each from the finished level before it and with exactly the steps of its own
\* list in list order; there are (number of levels - 1) step lists.
C22_LevelsInOrder ==
  cssPhase \in {"levels", "steps", "done"} =>
    /\ Len(cssTsteps) = CssLevels(cssOptions) - 1
    /\ \A k \in 0..(CssLevels(cssOptions) - 1) :
         /\ (k < cssI \/ cssPhase = "done") => cssLt[k + 1] = ExpectedLt(k)
         /\ (k = cssI /\ cssPhase = "levels") => cssLt[k + 1] = << >>
         /\ (k = cssI /\ cssPhase = "steps") =>
              /\ IsPrefix(cssLt[k + 1], ExpectedLt(k))
              /\ Len(cssLt[k + 1]) = Len(ExpectedLt(k - 1)) + 1 + cssJ
         /\ (k > cssI /\ cssPhase # "done") => cssLt[k + 1] = << >>

\* A pyramid of two octaves of two sublevels is finished; the third level was
\* downsampled from the second and took the three steps of its list out of increasing
\* order.
C22_Witness ==
  /\ cssPhase = "done"
  /\ cssOptions = [omax |-> 2, nsublevels |-> 2]
  /\ cssTsteps = << <<7>>, <<3, 1, 2>>, <<7>> >>
  /\ SubSeq(cssLt[3], Len(cssLt[2]) + 1, Len(cssLt[3]))
       = << Op("resize", 0), Op("step", 3), Op("step", 1), Op("step", 2) >>

(***************************************************************************)
(* Claims on generateDescriptorSubsample.                                  *)
(***************************************************************************)
\* C23: two constructions with the same configuration return the same sample list and
\* the same comparison table, whatever the other thread does with the generator of the
\* process before or during them.
C23_TablesReproducible ==
  (subPhase = "done" /\ subRun = 2) => subOut = subFirst

\* C26: the picks are pairwise distinct rows of the full comparison table, the modulus
\* fullM.rows - i of a pick is never zero, and the first min(6, npicks) picks are the
\* comparisons of the 2 x 2 grid, which are six.
C26_PicksDistinctCoarsestFirst ==
  /\ \A a \in 1..Len(subPicked) : \A b \in 1..Len(subPicked) :
       a # b => subPicked[a] # subPicked[b]
  /\ \A a \in 1..Len(subPicked) : \E c \in 1..Len(subFullM) : subPicked[a] = subFullM[c]
  /\ \A a \in 1..Min(6, Len(subPicked)) : subPicked[a] = subFullM[a]
  /\ subFullM # << >> => {c \in 1..Len(subFullM) : subFullM[c][1] = 0} = 1..6
  /\ (subPhase = "picks" /\ subI < Npicks(subIn)) => Len(subFullM) - subI > 0
  /\ (subPhase = "done" \/ (subPhase = "entry" /\ subRun = 2)) =>
       Len(subPicked) = Npicks(subIn)

\* A descriptor of the full 486 bits on three channels is finished: 162 picks, the last
\* with the modulus 1, have taken every row of the table.
C26_Witness ==
  /\ subPhase = "done"
  /\ subIn.nbits = 486 /\ subIn.nchannels = 3
  /\ Len(subPicked) = 162
  /\ {subPicked[a] : a \in 1..162} = {subFullM[c] : c \in 1..162}
  /\ subPicked[7] # subFullM[7]

\* C27: every store of generateDescriptorSubsample into comps goes to one of its
\* nchannels x ceil(nbits / nchannels) rows.
C27_StoresInsideComps == subOutside = {}

(***************************************************************************)
(* Claims on Compute_Main_Orientation.                                     *)
(***************************************************************************)
\* The samples whose slice lies in the window of 7 slices at position sn, the slices
\* counted modulo 42.
InWindow(sn) ==
  {i \in 1..Len(oriRes) : \E w \in 0..(Win - 1) : oriRes[i].key = (sn + w) % Slices}

RECURSIVE SumOver(_)
SumOver(S) ==
  IF S = {} THEN [x |-> 0, y |-> 0]
  ELSE LET i == CHOOSE i \in S : TRUE
           rest == SumOver(S \ {i})
       IN [x |-> oriRes[i].x + rest.x, y |-> oriRes[i].y + rest.y]

\* The reference: every position 0 .. upto is evaluated, none skipped, and the first
\* window with the largest squared norm is kept.
RECURSIVE Reference(_)
Reference(upto) ==
  LET s == SumOver(InWindow(upto))
  IN IF upto = 0 THEN [norm |-> NormOf(s), x |-> s.x, y |-> s.y]
     ELSE Better(Reference(upto - 1), s)

\* C24: after each position, skipped or not, Compute_Main_Orientation holds the vector
\* the reference holds after the same position; so it returns the vector the reference
\* returns after all 42 positions.
C24_SkippingKeepsTheMaximum ==
  /\ oriPhase \in {"slide", "wrap"} => oriMax = Reference(oriSn - 1)
  /\ oriPhase \in {"store", "done"} => oriMax = Reference(Slices - 1)

\* The orientation is stored after positions were skipped, one of them among the six
\* that wrap around, and the window kept is one that wraps around.
C24_Witness ==
  /\ oriPhase = "done"
  /\ \E sn \in 1..(Slices - Win) : sn \notin oriSummed
  /\ \E sn \in (Slices - Win + 1)..(Slices - 1) : sn \notin oriSummed
  /\ \E sn \in (Slices - Win + 1)..(Slices - 1) :
       /\ sn \in oriSummed
       /\ oriMax.norm = NormOf(SumOver(InWindow(sn)))
       /\ oriMax.norm > NormOf(SumOver(InWindow(0)))
       /\ \A m \in 0..(Slices - Win) : NormOf(SumOver(InWindow(m))) < oriMax.norm

(***************************************************************************)
(* Claims on the grid passes of the full binary extractors.                *)
(***************************************************************************)
\* C25: a grid pass never holds more cells than the (z + 2) x (z + 2) rows of its value
\* buffer, and when its loops have ended it has aggregated exactly that many cells,
\* each from at least one sample, for every descriptor_pattern_size >= 1.
C25_CellsMatchGrid ==
  /\ grdCount <= CellsHeld(grdIn.z)
  /\ grdCount > 0 => grdSamples > 0
  /\ grdPhase = "compare" => grdCount = CellsHeld(grdIn.z)
====
